---- MODULE Spec2Model ----
(***************************************************************************)
(* The laugh detector of MLA (src/src/core/detector.py, LaughDetector) as  *)
(* a state machine: one action per public operation (detect_laugh,         *)
(* reset_state, set_sensitivity, calibrate).                               *)
(*                                                                         *)
(* Specifications:                                                         *)
(*   Spec     all four operations, frames Frames                           *)
(*   SpecTie  detect_laugh, reset_state and set_sensitivity, frames        *)
(*            TieFrames (a score equal to the threshold occurs)            *)
(*   SpecFifo       face frames with two (score, confidence) pairs         *)
(*   SpecScenario   scored face frames under the default configuration     *)
(*   SpecCalls, SpecCalib   the calls between frames, with their arguments *)
(*            and the attributes they started from recorded in probe       *)
(*   SpecTwin       two detectors, one of them calibrated                  *)
(*   SpecDebug      two detectors, one of them with debug output           *)
(*   SpecFail       face frames whose analysis fails                       *)
(*   SpecShort      face frames with too few landmarks, default            *)
(*            configuration                                                *)
(*   SpecTrend      scored face frames under three configurations          *)
(*   SpecExit       frames with and without a face; the frame loop is fair *)
(*   SpecApp        the camera thread and the GUI thread of the            *)
(*            application calling one detector                             *)
(*   SpecThreshold, SpecScore   effective_threshold and                    *)
(*            analyze_facial_expression applied to ranges of arguments     *)
(* Each specification names its own frames and arguments; the operations   *)
(* are the same definitions in all of them: an operation is an operator on *)
(* the attributes of a detector (FaceFrameOn, NoFaceFrameOn, ResetOn,      *)
(* SetSensitivityOn, CalibrateOn) and an action that applies it to the     *)
(* detector held in the variables.                                         *)
(*                                                                         *)
(* Numbers.  The code computes in floating point.  The model computes in   *)
(* fixed point: every real quantity (feature, score, confidence,           *)
(* threshold, weight, sensitivity) is an integer number of thousandths,    *)
(* One = 1.0.  Quotients are floored (\div).  The inputs are chosen so     *)
(* that the comparisons the claims depend on are not decided by rounding.  *)
(*                                                                         *)
(* Optional values (Python None / empty dict) are sequences of length 0    *)
(* or 1: <<>> is None, <<v>> is the value v.                               *)
(***************************************************************************)
EXTENDS Integers, Sequences, FiniteSets, TLC

VARIABLES
    cfg,                          \* config.detection (never assigned by the detector)
    debug,                        \* self.debug
    sensitivity,                  \* self.sensitivity
    baseline_landmarks,           \* self.baseline_landmarks (optional)
    calibration_timestamp,        \* self.calibration_timestamp (optional)
    clock,                        \* the wall clock read by datetime.now()
    laugh_history,                \* self.laugh_history
    confidence_history,           \* self.confidence_history
    is_laughing,                  \* self.is_laughing
    consecutive_laugh_frames,     \* self.consecutive_laugh_frames
    consecutive_non_laugh_frames, \* self.consecutive_non_laugh_frames
    detection_result,             \* the DetectionResult returned by the last detect_laugh call since construction or reset (optional)
    calibrate_result,             \* the value returned by the last calibrate call (optional)
    was_laughing,                 \* observer: self.is_laughing when the last detect_laugh or reset_state call began
    out_run,                      \* observer: the run of equal is_laughing outputs that ends with detection_result
    above_run,                    \* observer: consecutive above-threshold qualifying face frames just processed
    below_run,                    \* observer: consecutive at-or-below-threshold qualifying face frames just processed
    printed,                      \* observer: the messages that the last call of the detector printed under self.debug
    probe,                        \* observer: the arguments (and, for a function, the value) of the last probed call
    twin,                         \* a second LaughDetector and the DetectionResult it returned last (optional)
    threads,                      \* the application: detection_active, and the detector call each thread is inside (optional)
    meme_controller,              \* the attributes of the MemeController
    after_jobs                    \* the Tk event loop: the after() jobs that are pending, and how many were created

detector == <<debug, sensitivity, baseline_landmarks, calibration_timestamp, clock,
              laugh_history, confidence_history, is_laughing,
              consecutive_laugh_frames, consecutive_non_laugh_frames>>
observer == <<detection_result, calibrate_result, was_laughing, out_run, above_run, below_run,
              printed>>
memes == <<meme_controller, after_jobs>>
vars == <<cfg, detector, observer, probe, twin, threads, memes>>

----------------------------------------------------------------------------
(* Bounds of the model *)

\* history_size and smoothing_window of the configuration checked (default 20 / 10)
MaxHistory == 5
\* the largest value a consecutive-frame counter is followed to
MaxCount == 5
\* the number of times the wall clock is read
MaxClock == 1
ConfidenceSteps == 10   \* the probed averaged confidences are 0, 1/10, .., 1
TrendSteps == 8         \* the probed trends are -2, .., -1/4, 0, 1/4, .., 2
SensitivitySteps == 5   \* the probed sensitivities divide [min, max] in 5 parts

----------------------------------------------------------------------------
(* Fixed-point arithmetic *)

One == 1000

Min(a, b) == IF a < b THEN a ELSE b
Max(a, b) == IF a > b THEN a ELSE b

RECURSIVE SqrtSearch(_, _, _)
\* the largest r in lo..hi with r*r <= n
SqrtSearch(n, lo, hi) ==
    IF lo >= hi THEN lo
    ELSE LET mid == (lo + hi + 1) \div 2
         IN  IF mid * mid <= n THEN SqrtSearch(n, mid, hi)
             ELSE SqrtSearch(n, lo, mid - 1)

ISqrt(n) == SqrtSearch(n, 0, 8192)

RECURSIVE Sum(_)
Sum(s) == IF s = <<>> THEN 0 ELSE Head(s) + Sum(Tail(s))

\* np.mean of a non-empty list
Mean(s) == Sum(s) \div Len(s)

\* np.std of three values (population standard deviation):
\* sqrt(sum(x^2)/3 - (sum(x)/3)^2) = sqrt(3*sum(x^2) - sum(x)^2) / 3
Std3(a, b, c) == ISqrt(3 * (a * a + b * b + c * c) - (a + b + c) * (a + b + c)) \div 3

\* Python slice s[-n:] for n >= 1
LastN(s, n) == IF Len(s) <= n THEN s ELSE SubSeq(s, Len(s) - n + 1, Len(s))

\* Python slice s[-10:-5] of a list of at least 10 entries
Slice10to5(s) == SubSeq(s, Len(s) - 9, Len(s) - 5)

----------------------------------------------------------------------------
(* Configuration: config.py, DetectionConfig *)

DefaultConfig ==
    [ default_sensitivity         |-> 1300,
      min_sensitivity             |-> 500,
      max_sensitivity             |-> 3000,
      base_threshold              |-> 400,
      min_threshold               |-> 250,
      consecutive_frames_required |-> 3,
      consecutive_frames_to_stop  |-> 5,
      history_size                |-> 20,
      smoothing_window            |-> 10,
      mouth_weight                |-> 400,
      eye_weight                  |-> 300,
      cheek_weight                |-> 300 ]

\* the default configuration with a history short enough to enumerate:
\* the smoothed values are used once the history is full
CheckConfig ==
    [DefaultConfig EXCEPT !.history_size = MaxHistory, !.smoothing_window = MaxHistory]

----------------------------------------------------------------------------
(* Frames.  A frame is what face_mesh.process finds in it: no face, or the *)
(* landmark set of one face.  A landmark set is described by its length n  *)
(* and by the distances the feature extractor measures on it; readable is  *)
(* false when converting it to an array raises.                            *)

Landmarks(n, mv, mw, lh, lw, rh, rw, nose, lc, rc) ==
    [ readable |-> TRUE,
      n |-> n,
      mouth_vertical |-> mv, mouth_width |-> mw,
      left_height |-> lh, left_width |-> lw,
      right_height |-> rh, right_width |-> rw,
      nose_y |-> nose, left_cheek_y |-> lc, right_cheek_y |-> rc ]

\* eyes wide open, mouth closed, cheeks level with the nose
NeutralFace == Landmarks(478, 0, 100, 100, 100, 100, 100, 500, 500, 500)
\* mouth half open, eyes half closed, cheeks raised
HalfFace == Landmarks(478, 50, 100, 50, 100, 50, 100, 500, 0, 0)
\* a landmark set too short for every feature
ShortFace == Landmarks(300, 50, 100, 50, 100, 50, 100, 500, 0, 0)
\* a landmark object whose conversion raises
MalformedFace == [NeutralFace EXCEPT !.readable = FALSE]

NoFaceFrame == <<>>
\* the frames of Spec
Frames == {<<NeutralFace>>, <<ShortFace>>, NoFaceFrame}
\* the frames of SpecTie: at the minimum sensitivity HalfFace scores exactly
\* the threshold
TieFrames == {<<NeutralFace>>, <<HalfFace>>, NoFaceFrame}

----------------------------------------------------------------------------
(* Feature extraction *)

Ratio(num, den) == IF den > 0 THEN (num * One) \div den ELSE 0

calculate_mouth_openness(lm) ==
    IF lm.n = 0 \/ lm.n <= 405 THEN 0
    ELSE Ratio(lm.mouth_vertical, lm.mouth_width)

calculate_eye_crinkle(lm) ==
    IF lm.n = 0 THEN 0
    ELSE IF lm.n <= 466 THEN 0
    ELSE (Ratio(lm.left_height, lm.left_width) + Ratio(lm.right_height, lm.right_width)) \div 2

calculate_cheek_movement(lm) ==
    IF lm.n = 0 \/ lm.n <= 345 THEN 0
    ELSE ((lm.nose_y - lm.left_cheek_y) + (lm.nose_y - lm.right_cheek_y)) \div 2

\* mutant: the eye feature enters the score as it is, not as 1 - eye_crinkle
WeightedScoreEyeDirect(m, e, c, sens) ==
    (((m * cfg.mouth_weight + e * cfg.eye_weight + c * cfg.cheek_weight) \div One)
        * sens) \div One

\* laugh_score before the min(.., 1.0)
WeightedScore(m, e, c, sens) ==
    (((m * cfg.mouth_weight + (One - e) * cfg.eye_weight + c * cfg.cheek_weight) \div One)
        * sens) \div One

ClampScore(laugh_score) == Min(laugh_score, One)

ClampConfidence(confidence) == Max(Min(confidence, One), 0)

\* mutant: the except branch reports full confidence
ZeroFeaturesConfident ==
    [ mouth_openness |-> 0, eye_crinkle |-> 0, cheek_movement |-> 0,
      laugh_score |-> 0, confidence |-> One ]

\* the value returned for None and from the except branch
ZeroFeatures ==
    [ mouth_openness |-> 0, eye_crinkle |-> 0, cheek_movement |-> 0,
      laugh_score |-> 0, confidence |-> 0 ]

analyze_facial_expression(lm, sens) ==
    LET mouth_openness == calculate_mouth_openness(lm)
        eye_crinkle    == calculate_eye_crinkle(lm)
        cheek_movement == calculate_cheek_movement(lm)
        laugh_score    == WeightedScore(mouth_openness, eye_crinkle, cheek_movement, sens)
        confidence     == One - Std3(mouth_openness, One - eye_crinkle, cheek_movement)
    IN  IF ~lm.readable THEN ZeroFeatures
        ELSE [ mouth_openness |-> mouth_openness,
               eye_crinkle    |-> eye_crinkle,
               cheek_movement |-> cheek_movement,
               laugh_score    |-> ClampScore(laugh_score),
               confidence     |-> ClampConfidence(confidence) ]

----------------------------------------------------------------------------
(* Temporal history *)

\* append, then evict the oldest entry once the score history is too long;
\* long is the length test, made on the score history for both lists
\* mutant: the newest entry is removed instead of the oldest
EvictNewest(h, long) == IF long THEN SubSeq(h, 1, Len(h) - 1) ELSE h

Evict(h, long) == IF long THEN Tail(h) ELSE h

\* mutant: the eviction comes one entry late
TooLongLate(h) == Len(h) > cfg.history_size + 1

TooLong(h) == Len(h) > cfg.history_size

\* mutant: no cold start
QualifyingEarly(h) == Len(h) >= 1

\* mutant: the cold start lasts one frame longer
QualifyingLate(h) == Len(h) >= 6

Qualifying(h) == Len(h) >= 5

\* mutant: the trend is taken as soon as the window of smoothing_window
\* entries is full, over the entries there are
TrendOfWindow(h) ==
    IF Len(h) >= cfg.smoothing_window /\ Len(h) > 5
    THEN Mean(LastN(h, 5)) - Mean(SubSeq(h, Max(1, Len(h) - 9), Len(h) - 5))
    ELSE 0

recent_trend(h) ==
    IF Len(h) >= 10 THEN Mean(LastN(h, 5)) - Mean(Slice10to5(h)) ELSE 0

\* mutant: a history shorter than the window is averaged as far as it goes
SmoothedPartial(h, raw) == Mean(LastN(h, Min(Len(h), cfg.smoothing_window)))

\* mean of the last smoothing_window entries, or the current raw value
Smoothed(h, raw) ==
    IF Len(h) >= cfg.smoothing_window THEN Mean(LastN(h, cfg.smoothing_window)) ELSE raw

\* mutant: the trend enters with its sign
ThresholdSignedTrend(avg_confidence, trend) ==
    Max(cfg.base_threshold - (avg_confidence * 200) \div One - trend * 2, cfg.min_threshold)

\* mutant: the result is not floored at min_threshold
UnflooredThreshold(avg_confidence, trend) ==
    cfg.base_threshold - (avg_confidence * 200) \div One - Max(trend * 2, 0)

effective_threshold(avg_confidence, trend) ==
    LET confidence_bonus == (avg_confidence * 200) \div One
        trend_bonus      == Max(trend * 2, 0)
    IN  Max(cfg.base_threshold - confidence_bonus - trend_bonus, cfg.min_threshold)

----------------------------------------------------------------------------
(* Hysteresis *)

AboveThreshold(smoothed_score, threshold) == smoothed_score > threshold

\* mutant: a non-laugh frame does not zero the laugh counter
LaughFramesKept(above, laugh_frames) == IF above THEN laugh_frames + 1 ELSE laugh_frames

\* self.consecutive_laugh_frames after the comparison
LaughFramesAfter(above, laugh_frames) == IF above THEN laugh_frames + 1 ELSE 0

\* mutant: the two branches of the non-laugh counter are exchanged
NonLaughFramesSwapped(above, non_laugh_frames) ==
    IF above THEN non_laugh_frames + 1 ELSE 0

\* mutant: a laugh frame does not zero the non-laugh counter
NonLaughFramesKept(above, non_laugh_frames) ==
    IF above THEN non_laugh_frames ELSE non_laugh_frames + 1

\* self.consecutive_non_laugh_frames after the comparison
NonLaughFramesAfter(above, non_laugh_frames) == IF above THEN 0 ELSE non_laugh_frames + 1

\* mutant: one frame more than required
StartDecisionLate(laugh_frames) == laugh_frames > cfg.consecutive_frames_required

\* the decision while self.is_laughing is false
StartDecision(laugh_frames) == laugh_frames >= cfg.consecutive_frames_required

\* mutant: one frame more than required
StopDecisionLate(non_laugh_frames) == non_laugh_frames <= cfg.consecutive_frames_to_stop

\* the decision while self.is_laughing is true
StopDecision(non_laugh_frames) == non_laugh_frames < cfg.consecutive_frames_to_stop

\* mutant: the end of a laugh is not recorded
TrackedStateSticky(result_laughing, self_laughing) ==
    IF result_laughing /\ ~self_laughing THEN TRUE ELSE self_laughing

\* self.is_laughing after _track_laugh_state_changes
TrackedState(result_laughing, self_laughing) ==
    IF result_laughing /\ ~self_laughing THEN TRUE
    ELSE IF ~result_laughing /\ self_laughing THEN FALSE
    ELSE self_laughing

\* mutant: the assignments of _track_laugh_state_changes are made under
\* self.debug, like its print calls
TrackOnlyWhenDebugging(self, result_laughing) ==
    [ is_laughing |-> IF self.debug
                      THEN TrackedState(result_laughing, self.is_laughing)
                      ELSE self.is_laughing,
      printed     |-> IF ~self.debug THEN <<>>
                      ELSE IF result_laughing /\ ~self.is_laughing THEN <<"laugh_started">>
                      ELSE IF ~result_laughing /\ self.is_laughing THEN <<"laugh_ended">>
                      ELSE <<>> ]

\* _track_laugh_state_changes of the detector self for a DetectionResult
\* whose is_laughing is result_laughing: self.is_laughing after it, and what
\* it printed
track_laugh_state_changes(self, result_laughing) ==
    [ is_laughing |-> TrackedState(result_laughing, self.is_laughing),
      printed     |-> IF ~self.debug THEN <<>>
                      ELSE IF result_laughing /\ ~self.is_laughing THEN <<"laugh_started">>
                      ELSE IF ~result_laughing /\ self.is_laughing THEN <<"laugh_ended">>
                      ELSE <<>> ]

\* what analyze_facial_expression prints for the landmark set lm
analysis_printed(debug_enabled, lm) ==
    IF debug_enabled /\ ~lm.readable THEN <<"analysis_error">> ELSE <<>>

\* mutant: a frame without a face leaves the counter alone
NoFaceCounterKept(counter) == counter

\* a counter after a frame without a face
NoFaceCounter(counter) == 0

----------------------------------------------------------------------------
(* Observers of the frame and output sequences *)

RunCap == MaxCount + 1

\* the run of equal is_laughing outputs after one more output: its value, its
\* length, and whether a run of true came right before it; ended is the run
\* that this output ended, if any
NextRun(run, out) ==
    IF run.len > 0 /\ run.val = out
    THEN [run EXCEPT !.len = Min(run.len + 1, RunCap), !.ended = <<>>]
    ELSE [ val |-> out, len |-> 1,
           after_true |-> (run.len > 0 /\ run.val = TRUE),
           ended |-> IF run.len > 0
                     THEN <<[val |-> run.val, len |-> run.len, after_true |-> run.after_true]>>
                     ELSE <<>> ]

NoRun == [val |-> FALSE, len |-> 0, after_true |-> FALSE, ended |-> <<>>]

----------------------------------------------------------------------------
(* Operations *)

\* LaughDetector(sensitivity = argument, debug = debug_argument): argument is
\* optional
LaughDetector(argument, debug_argument) ==
    /\ debug = debug_argument
    /\ sensitivity = IF argument = <<>> \/ argument = <<0>>
                     THEN cfg.default_sensitivity ELSE argument[1]
    /\ baseline_landmarks = <<>>
    /\ calibration_timestamp = <<>>
    /\ clock = 0
    /\ laugh_history = <<>>
    /\ confidence_history = <<>>
    /\ is_laughing = FALSE
    /\ consecutive_laugh_frames = 0
    /\ consecutive_non_laugh_frames = 0
    /\ detection_result = <<>>
    /\ calibrate_result = <<>>
    /\ was_laughing = FALSE
    /\ out_run = NoRun
    /\ above_run = 0
    /\ below_run = 0
    /\ printed = <<>>

\* LaughDetector(sensitivity = argument): debug is False by default
LaughDetector_init(argument) == LaughDetector(argument, FALSE)

\* MemeController(database), and an event loop without pending jobs
MemeController_init ==
    /\ meme_controller = [ memes_queue         |-> <<>>,
                           current_meme_index  |-> -1,
                           current_meme        |-> <<>>,
                           view_start_time     |-> <<>>,
                           laugh_events        |-> <<>>,
                           auto_advance_active |-> FALSE,
                           auto_advance_job    |-> <<>> ]
    /\ after_jobs = [pending |-> {}, created |-> 0]

NoProbe == [fn |-> "none"]

NoTwin == <<>>

\* no thread is inside a call of the detector; detection is not started
NoThreads == [detection_active |-> FALSE, camera_call |-> <<>>, gui_call |-> <<>>]

Init ==
    /\ cfg = CheckConfig
    /\ LaughDetector_init(<<>>)
    /\ probe = NoProbe
    /\ twin = NoTwin
    /\ threads = NoThreads
    /\ MemeController_init

\* the counters are followed up to MaxCount
CounterBound ==
    /\ consecutive_laugh_frames' <= MaxCount
    /\ consecutive_non_laugh_frames' <= MaxCount

\* The temporal analysis of a qualifying frame: the history lists after the
\* push, the frame's raw score and confidence -> trend, smoothed values,
\* threshold and the comparison
Analysis(lh, ch, raw, confidence) ==
    LET trend     == recent_trend(lh)
        avg_conf  == Smoothed(ch, confidence)
        smoothed  == Smoothed(lh, raw)
        threshold == effective_threshold(avg_conf, trend)
    IN  [ recent_trend        |-> trend,
          avg_confidence      |-> avg_conf,
          smoothed_score      |-> smoothed,
          effective_threshold |-> threshold,
          above               |-> AboveThreshold(smoothed, threshold) ]

\* The attributes of the detector
Self ==
    [ debug                 |-> debug,
      sensitivity           |-> sensitivity,
      baseline_landmarks    |-> baseline_landmarks,
      calibration_timestamp |-> calibration_timestamp,
      laugh_history         |-> laugh_history,
      confidence_history    |-> confidence_history,
      is_laughing           |-> is_laughing,
      consecutive_laugh_frames     |-> consecutive_laugh_frames,
      consecutive_non_laugh_frames |-> consecutive_non_laugh_frames ]

\* self := s
StoreSelf(s) ==
    /\ debug' = s.debug
    /\ sensitivity' = s.sensitivity
    /\ baseline_landmarks' = s.baseline_landmarks
    /\ calibration_timestamp' = s.calibration_timestamp
    /\ laugh_history' = s.laugh_history
    /\ confidence_history' = s.confidence_history
    /\ is_laughing' = s.is_laughing
    /\ consecutive_laugh_frames' = s.consecutive_laugh_frames
    /\ consecutive_non_laugh_frames' = s.consecutive_non_laugh_frames

\* detect_laugh of the detector self on a frame with the landmark set lm,
\* from the temporal analysis on: self holds the histories as the push and
\* the eviction have left them, features is what analyze_facial_expression
\* returned for lm.  The attributes after the call, the DetectionResult,
\* whether the frame qualified and was above the threshold, and what was
\* printed
DecideOn(self, lm, features) ==
    LET lh   == self.laugh_history
        ch   == self.confidence_history
        qualifying == Qualifying(lh)
        a    == Analysis(lh, ch, features.laugh_score, features.confidence)
        clf  == IF qualifying THEN LaughFramesAfter(a.above, self.consecutive_laugh_frames)
                ELSE self.consecutive_laugh_frames
        cnlf == IF qualifying
                THEN NonLaughFramesAfter(a.above, self.consecutive_non_laugh_frames)
                ELSE self.consecutive_non_laugh_frames
        laughing == IF ~qualifying THEN FALSE
                    ELSE IF ~self.is_laughing THEN StartDecision(clf)
                    ELSE StopDecision(cnlf)
        track == track_laugh_state_changes(self, laughing)
    IN  [ self |-> [self EXCEPT !.consecutive_laugh_frames = clf,
                                !.consecutive_non_laugh_frames = cnlf,
                                !.is_laughing = track.is_laughing],
          result |-> [ is_laughing      |-> laughing,
                       intensity        |-> IF qualifying THEN a.smoothed_score
                                            ELSE features.laugh_score,
                       confidence       |-> IF qualifying THEN a.avg_confidence
                                            ELSE features.confidence,
                       confidence_trend |-> IF qualifying THEN a.recent_trend ELSE 0,
                       features         |-> <<features>>,
                       landmarks        |-> <<lm>>,
                       consecutive_laugh_frames     |-> clf,
                       consecutive_non_laugh_frames |-> cnlf ],
          qualifying |-> qualifying,
          above      |-> qualifying /\ a.above,
          printed    |-> analysis_printed(self.debug, lm) \o track.printed ]

\* detect_laugh of the detector self on a frame in which face_mesh finds the
\* landmark set lm, from the value features that analyze_facial_expression
\* returned for it: the pair is pushed, the oldest pair evicted once the
\* score history is too long, and the frame decided
FaceFrameOn(self, lm, features) ==
    LET long == TooLong(Append(self.laugh_history, features.laugh_score))
        lh   == Evict(Append(self.laugh_history, features.laugh_score), long)
        ch   == Evict(Append(self.confidence_history, features.confidence), long)
    IN  DecideOn([self EXCEPT !.laugh_history = lh, !.confidence_history = ch],
                 lm, features)

\* mutant: a frame without a face is pushed as a frame that scores 0
NoFaceFramePushed(self) ==
    [ self |-> [self EXCEPT
                  !.laugh_history = Evict(Append(self.laugh_history, 0),
                                          TooLong(Append(self.laugh_history, 0))),
                  !.confidence_history = Evict(Append(self.confidence_history, 0),
                                               TooLong(Append(self.laugh_history, 0))),
                  !.consecutive_laugh_frames = 0,
                  !.consecutive_non_laugh_frames = 0],
      result |-> [ is_laughing      |-> FALSE,
                   intensity        |-> 0,
                   confidence       |-> 0,
                   confidence_trend |-> 0,
                   features         |-> <<>>,
                   landmarks        |-> <<>>,
                   consecutive_laugh_frames     |-> self.consecutive_laugh_frames,
                   consecutive_non_laugh_frames |-> self.consecutive_non_laugh_frames ],
      qualifying |-> FALSE,
      above      |-> FALSE,
      printed    |-> <<>> ]

\* detect_laugh of the detector self on a frame in which face_mesh finds no face
NoFaceFrameOn(self) ==
    [ self |-> [self EXCEPT
                  !.consecutive_laugh_frames =
                      NoFaceCounter(self.consecutive_laugh_frames),
                  !.consecutive_non_laugh_frames =
                      NoFaceCounter(self.consecutive_non_laugh_frames)],
      result |-> [ is_laughing      |-> FALSE,
                   intensity        |-> 0,
                   confidence       |-> 0,
                   confidence_trend |-> 0,
                   features         |-> <<>>,
                   landmarks        |-> <<>>,
                   consecutive_laugh_frames     |-> self.consecutive_laugh_frames,
                   consecutive_non_laugh_frames |-> self.consecutive_non_laugh_frames ],
      qualifying |-> FALSE,
      above      |-> FALSE,
      printed    |-> <<>> ]

\* the frame processed by this detector.
\* (\E x \in {e} binds x to the value of e, evaluated once.)
DetectFeatures(lm, expression) ==
    \E features \in {expression} :
    \E o \in {FaceFrameOn(Self, lm, features)} :
        /\ StoreSelf(o.self)
        /\ detection_result' = <<o.result>>
        /\ was_laughing' = is_laughing
        /\ out_run' = NextRun(out_run, o.result.is_laughing)
        /\ above_run' = IF o.above THEN Min(above_run + 1, RunCap) ELSE 0
        /\ below_run' = IF o.qualifying /\ ~o.above THEN Min(below_run + 1, RunCap) ELSE 0
        /\ printed' = o.printed
        /\ UNCHANGED <<cfg, clock, calibrate_result>>

DetectFace(lm) == DetectFeatures(lm, analyze_facial_expression(lm, sensitivity))

DetectNoFace ==
    \E o \in {NoFaceFrameOn(Self)} :
        /\ StoreSelf(o.self)
        /\ detection_result' = <<o.result>>
        /\ was_laughing' = is_laughing
        /\ out_run' = NextRun(out_run, FALSE)
        /\ above_run' = 0
        /\ below_run' = 0
        /\ printed' = o.printed
        /\ UNCHANGED <<cfg, clock, calibrate_result>>

detect_laugh(frame) ==
    IF frame = NoFaceFrame THEN DetectNoFace ELSE DetectFace(frame[1])

Detect ==
    \E frame \in Frames : detect_laugh(frame) /\ CounterBound /\ UNCHANGED <<probe, twin, threads, memes>>

DetectTie ==
    \E frame \in TieFrames : detect_laugh(frame) /\ CounterBound /\ UNCHANGED <<probe, twin, threads, memes>>

\* mutant: the histories survive the reset
ResetKeepsHistory(self) ==
    [self EXCEPT !.is_laughing = FALSE,
                 !.consecutive_laugh_frames = 0,
                 !.consecutive_non_laugh_frames = 0]

\* mutant: the counters survive the reset
ResetKeepsCounters(self) ==
    [self EXCEPT !.laugh_history = <<>>,
                 !.confidence_history = <<>>,
                 !.is_laughing = FALSE]

\* mutant: the laughing state survives the reset
ResetKeepsLaughing(self) ==
    [self EXCEPT !.laugh_history = <<>>,
                 !.confidence_history = <<>>,
                 !.consecutive_laugh_frames = 0,
                 !.consecutive_non_laugh_frames = 0]

\* reset_state of the detector self
ResetOn(self) ==
    [self EXCEPT !.laugh_history = <<>>,
                 !.confidence_history = <<>>,
                 !.is_laughing = FALSE,
                 !.consecutive_laugh_frames = 0,
                 !.consecutive_non_laugh_frames = 0]

reset_state ==
    /\ StoreSelf(ResetOn(Self))
    /\ detection_result' = <<>>
    /\ was_laughing' = is_laughing
    /\ out_run' = NoRun
    /\ above_run' = 0
    /\ below_run' = 0
    /\ printed' = <<>>
    /\ UNCHANGED <<cfg, clock, calibrate_result>>

get_state_info ==
    [ sensitivity      |-> sensitivity,
      is_calibrated    |-> baseline_landmarks # <<>>,
      calibration_time |-> calibration_timestamp,
      history_length   |-> Len(laugh_history),
      current_state    |-> IF is_laughing THEN "laughing" ELSE "not_laughing",
      consecutive_laugh_frames     |-> consecutive_laugh_frames,
      consecutive_non_laugh_frames |-> consecutive_non_laugh_frames ]

\* mutant: no upper clamp
SetSensitivityUnclamped(self, value) ==
    [self EXCEPT !.sensitivity = Max(cfg.min_sensitivity, value)]

\* mutant: a change of sensitivity starts the temporal analysis afresh
SetSensitivityResetting(self, value) ==
    [self EXCEPT !.sensitivity =
                     Max(cfg.min_sensitivity, Min(value, cfg.max_sensitivity)),
                 !.laugh_history = <<>>,
                 !.confidence_history = <<>>,
                 !.consecutive_laugh_frames = 0,
                 !.consecutive_non_laugh_frames = 0]

\* set_sensitivity of the detector self
SetSensitivityOn(self, value) ==
    [self EXCEPT !.sensitivity =
                     Max(cfg.min_sensitivity, Min(value, cfg.max_sensitivity))]

\* what set_sensitivity prints
sensitivity_printed(debug_enabled) ==
    IF debug_enabled THEN <<"sensitivity_updated">> ELSE <<>>

set_sensitivity(value) ==
    /\ StoreSelf(SetSensitivityOn(Self, value))
    /\ printed' = sensitivity_printed(debug)
    /\ UNCHANGED <<cfg, clock, detection_result, calibrate_result, was_laughing,
                   out_run, above_run, below_run>>

SensitivityInputs == {300, 1300}

SetSensitivity ==
    \E value \in SensitivityInputs : set_sensitivity(value) /\ UNCHANGED <<probe, twin, threads, memes>>

(* Calibration.  An entry of the batch is a landmark object: falsy (None),  *)
(* truthy but without readable landmarks (the conversion raises), or a      *)
(* landmark set, whose coordinate array is represented by one coordinate.   *)
Entry(truthy, readable, point) == [truthy |-> truthy, readable |-> readable, point |-> point]

NoneEntry == Entry(FALSE, FALSE, 0)
BadEntry == Entry(TRUE, FALSE, 60)

\* mutant: an entry that does not convert contributes its array all the same
ValidArraysLax(landmarks_list) ==
    LET kept == SelectSeq(landmarks_list, LAMBDA landmarks : landmarks.truthy)
    IN  [i \in 1..Len(kept) |-> kept[i].point]

\* mutant: the loop ends at the first entry that is falsy or does not convert
ValidArraysUntilInvalid(landmarks_list) ==
    LET valid(i) == landmarks_list[i].truthy /\ landmarks_list[i].readable
        n == CHOOSE k \in 0..Len(landmarks_list) :
                 /\ \A i \in 1..k : valid(i)
                 /\ k = Len(landmarks_list) \/ ~valid(k + 1)
    IN  [i \in 1..n |-> landmarks_list[i].point]

RECURSIVE ValidArrays(_)
\* all_features: the arrays of the entries that are truthy and convert
ValidArrays(landmarks_list) ==
    IF landmarks_list = <<>> THEN <<>>
    ELSE LET landmarks == Head(landmarks_list)
             rest      == ValidArrays(Tail(landmarks_list))
         IN  IF landmarks.truthy /\ landmarks.readable
             THEN <<landmarks.point>> \o rest
             ELSE rest

\* mutant: a successful calibration starts the temporal analysis afresh
CalibrateResetting(self, landmarks_list, now) ==
    LET all_features == ValidArrays(landmarks_list)
    IN  IF landmarks_list # <<>> /\ all_features # <<>>
        THEN [ self  |-> [self EXCEPT !.baseline_landmarks = <<Mean(all_features)>>,
                                      !.calibration_timestamp = <<now>>,
                                      !.laugh_history = <<>>,
                                      !.confidence_history = <<>>,
                                      !.consecutive_laugh_frames = 0,
                                      !.consecutive_non_laugh_frames = 0],
               value |-> TRUE ]
        ELSE [ self |-> self, value |-> FALSE ]

\* calibrate of the detector self when datetime.now() is now: the
\* attributes after the call and the value returned
CalibrateOn(self, landmarks_list, now) ==
    LET all_features == ValidArrays(landmarks_list)
    IN  IF landmarks_list # <<>> /\ all_features # <<>>
        THEN [ self  |-> [self EXCEPT !.baseline_landmarks = <<Mean(all_features)>>,
                                      !.calibration_timestamp = <<now>>],
               value |-> TRUE ]
        ELSE [ self |-> self, value |-> FALSE ]

\* what calibrate prints: one message for every entry that does not convert
calibration_printed(debug_enabled, landmarks_list) ==
    IF ~debug_enabled THEN <<>>
    ELSE LET failed == SelectSeq(landmarks_list,
                                 LAMBDA landmarks : landmarks.truthy /\ ~landmarks.readable)
         IN  [i \in 1..Len(failed) |-> "calibration_error"]

\* the clock advances when it is read
calibrate(landmarks_list) ==
    \E o \in {CalibrateOn(Self, landmarks_list, clock + 1)} :
        /\ StoreSelf(o.self)
        /\ clock' = IF o.value THEN clock + 1 ELSE clock
        /\ calibrate_result' = <<o.value>>
        /\ printed' = calibration_printed(debug, landmarks_list)
        /\ UNCHANGED <<cfg, detection_result, was_laughing, out_run, above_run,
                       below_run>>

CalibrationBatches ==
    { <<>>,
      <<NoneEntry, BadEntry>>,
      <<Entry(TRUE, TRUE, 10), BadEntry, NoneEntry, Entry(TRUE, TRUE, 30)>> }

Calibrate ==
    \E landmarks_list \in CalibrationBatches :
        calibrate(landmarks_list) /\ clock' <= MaxClock /\ UNCHANGED <<probe, twin, threads, memes>>

Reset == reset_state /\ UNCHANGED <<probe, twin, threads, memes>>

Next ==
    \/ Detect
    \/ Reset
    \/ SetSensitivity
    \/ Calibrate

Spec == Init /\ [][Next]_vars

NextTie ==
    \/ DetectTie
    \/ Reset
    \/ SetSensitivity

SpecTie == Init /\ [][NextTie]_vars

(* SpecFifo: face frames with two different (score, confidence) pairs, and  *)
(* reset_state.                                                             *)
FifoFrames == {<<NeutralFace>>, <<ShortFace>>}

DetectFifo ==
    \E frame \in FifoFrames : detect_laugh(frame) /\ CounterBound /\ UNCHANGED <<probe, twin, threads, memes>>

NextFifo ==
    \/ DetectFifo
    \/ Reset

SpecFifo == Init /\ [][NextFifo]_vars

(* SpecFail: face frames whose landmark object does not convert, so that    *)
(* analyze_facial_expression ends in its except branch, among face frames   *)
(* that score above the threshold, and reset_state.                         *)
FailFrames == {<<MalformedFace>>, <<ShortFace>>}

DetectFail ==
    \E frame \in FailFrames :
        detect_laugh(frame) /\ CounterBound /\ UNCHANGED <<probe, twin, threads, memes>>

NextFail ==
    \/ DetectFail
    \/ Reset

SpecFail == Init /\ [][NextFail]_vars

(* SpecApp: the detector in the application.  The camera thread            *)
(* (camera_loop) calls detect_laugh on every frame while detection is       *)
(* active; the GUI thread starts and stops detection and calls              *)
(* set_sensitivity, reset_state and calibrate.  A call begins and returns   *)
(* in two steps; its effect is taken at the return.  The code holds no lock *)
(* and hands no call over to the other thread.                              *)
InitApp ==
    /\ cfg = CheckConfig
    /\ LaughDetector_init(<<>>)
    /\ probe = NoProbe
    /\ twin = NoTwin
    /\ threads = NoThreads
    /\ MemeController_init

AppFrames == {<<ShortFace>>, NoFaceFrame}

\* the batch that CameraController.calibrate collects is not empty
AppCalls ==
    { [fn |-> "reset_state", arguments |-> <<>>],
      [fn |-> "calibrate", arguments |-> <<<<Entry(TRUE, TRUE, 10)>>>>] }
    \cup { [fn |-> "set_sensitivity", arguments |-> <<value>>] :
               value \in {cfg.min_sensitivity, cfg.default_sensitivity} }

\* start_detection / stop_detection, on the GUI thread
SetDetectionActive ==
    \E active \in BOOLEAN :
        /\ threads.gui_call = <<>>
        /\ threads' = [threads EXCEPT !.detection_active = active]
        /\ UNCHANGED <<cfg, detector, observer, probe, twin, memes>>

\* camera_loop: if self.detection_active: .. detect_laugh(frame)
CameraCall ==
    \E frame \in AppFrames :
        /\ threads.detection_active
        /\ threads.camera_call = <<>>
        /\ threads' = [threads EXCEPT !.camera_call = <<frame>>]
        /\ UNCHANGED <<cfg, detector, observer, probe, twin, memes>>

CameraReturn ==
    /\ threads.camera_call # <<>>
    /\ detect_laugh(threads.camera_call[1])
    /\ CounterBound
    /\ threads' = [threads EXCEPT !.camera_call = <<>>]
    /\ UNCHANGED <<probe, twin, memes>>

\* a callback of the GUI thread reaches its call of the detector
GuiCall ==
    \E call \in AppCalls :
        /\ threads.gui_call = <<>>
        /\ call.fn = "calibrate" => threads.detection_active
        /\ threads' = [threads EXCEPT !.gui_call = <<call>>]
        /\ UNCHANGED <<cfg, detector, observer, probe, twin, memes>>

GuiReturn ==
    /\ threads.gui_call # <<>>
    /\ \E call \in {threads.gui_call[1]} :
          \/ call.fn = "reset_state" /\ reset_state
          \/ call.fn = "set_sensitivity" /\ set_sensitivity(call.arguments[1])
          \/ call.fn = "calibrate" /\ calibrate(call.arguments[1])
                                    /\ clock' <= MaxClock
    /\ threads' = [threads EXCEPT !.gui_call = <<>>]
    /\ UNCHANGED <<probe, twin, memes>>

NextApp ==
    \/ SetDetectionActive
    \/ CameraCall
    \/ CameraReturn
    \/ GuiCall
    \/ GuiReturn

SpecApp == InitApp /\ [][NextApp]_vars

(* SpecThreshold: the threshold computation of a qualifying frame applied   *)
(* to averaged confidences and trends of the whole range, under the         *)
(* default configuration.                                                   *)
InitDefault ==
    /\ cfg = DefaultConfig
    /\ LaughDetector_init(<<>>)
    /\ probe = NoProbe
    /\ twin = NoTwin
    /\ threads = NoThreads
    /\ MemeController_init

ConfidenceLevels == {(One * i) \div ConfidenceSteps : i \in 0..ConfidenceSteps}

TrendLevels == {(2 * One * i) \div TrendSteps : i \in (0 - TrendSteps)..TrendSteps}

ThresholdProbe ==
    \E avg_confidence \in ConfidenceLevels, trend \in TrendLevels :
        /\ probe' = [ fn             |-> "effective_threshold",
                      avg_confidence |-> avg_confidence,
                      trend          |-> trend,
                      value          |-> effective_threshold(avg_confidence, trend) ]
        /\ UNCHANGED <<cfg, detector, observer, twin, threads, memes>>

NextThreshold == ThresholdProbe

SpecThreshold == InitDefault /\ [][NextThreshold]_vars

(* SpecTwin: two detectors constructed alike.  Every frame, every           *)
(* reset_state and every set_sensitivity goes to both; calibrate goes to    *)
(* this detector only.                                                      *)
Twin(self, result) == <<[self |-> self, result |-> result]>>

\* detect_laugh of the detector self
DetectOn(self, frame) ==
    IF frame = NoFaceFrame THEN NoFaceFrameOn(self)
    ELSE FaceFrameOn(self, frame[1],
                     analyze_facial_expression(frame[1], self.sensitivity))

InitTwin ==
    /\ cfg = CheckConfig
    /\ LaughDetector_init(<<>>)
    /\ probe = NoProbe
    /\ twin = Twin(Self, <<>>)
    /\ threads = NoThreads
    /\ MemeController_init

TwinFrames == {<<ShortFace>>, NoFaceFrame}

DetectBoth ==
    \E frame \in TwinFrames :
        /\ detect_laugh(frame)
        /\ CounterBound
        /\ \E o \in {DetectOn(twin[1].self, frame)} : twin' = Twin(o.self, <<o.result>>)
        /\ UNCHANGED <<probe, threads, memes>>

ResetBoth ==
    /\ reset_state
    /\ twin' = Twin(ResetOn(twin[1].self), <<>>)
    /\ UNCHANGED <<probe, threads, memes>>

SetSensitivityBoth ==
    \E value \in SensitivityInputs :
        /\ set_sensitivity(value)
        /\ twin' = Twin(SetSensitivityOn(twin[1].self, value), twin[1].result)
        /\ UNCHANGED <<probe, threads, memes>>

NextTwin ==
    \/ DetectBoth
    \/ ResetBoth
    \/ SetSensitivityBoth
    \/ Calibrate

SpecTwin == InitTwin /\ [][NextTwin]_vars

(* SpecDebug: two detectors, this one constructed with debug = True, the    *)
(* other one with debug = False.  Every call goes to both.                  *)
InitDebug ==
    /\ cfg = CheckConfig
    /\ LaughDetector(<<>>, TRUE)
    /\ probe = NoProbe
    /\ twin = Twin([Self EXCEPT !.debug = FALSE], <<>>)
    /\ threads = NoThreads
    /\ MemeController_init

DebugFrames == {<<ShortFace>>, <<MalformedFace>>}

DetectDebug ==
    \E frame \in DebugFrames :
        /\ detect_laugh(frame)
        /\ CounterBound
        /\ \E o \in {DetectOn(twin[1].self, frame)} : twin' = Twin(o.self, <<o.result>>)
        /\ UNCHANGED <<probe, threads, memes>>

DebugBatches == {<<BadEntry, Entry(TRUE, TRUE, 10)>>}

CalibrateBoth ==
    \E landmarks_list \in DebugBatches :
        /\ calibrate(landmarks_list)
        /\ clock' <= MaxClock
        /\ twin' = Twin(CalibrateOn(twin[1].self, landmarks_list, clock + 1).self,
                        twin[1].result)
        /\ UNCHANGED <<probe, threads, memes>>

NextDebug ==
    \/ DetectDebug
    \/ ResetBoth
    \/ SetSensitivityBoth
    \/ CalibrateBoth

SpecDebug == InitDebug /\ [][NextDebug]_vars

(* SpecScore: analyze_facial_expression applied to faces whose mouth is     *)
(* closed, half open or open, whose eyes are closed, half open or open and  *)
(* whose cheeks are level with, above or below the nose, to a landmark set  *)
(* that is too short and to one that does not convert, under sensitivities  *)
(* of the whole range.                                                      *)
ScoreFaces ==
    { Landmarks(478, mouth, 100, eye, 100, eye, 100, 500, cheek, cheek) :
          mouth \in {0, 50, 100}, eye \in {0, 50, 100}, cheek \in {0, 500, 1000} }
    \cup {ShortFace, MalformedFace}

ScoreSensitivities ==
    { cfg.min_sensitivity
        + (i * (cfg.max_sensitivity - cfg.min_sensitivity)) \div SensitivitySteps :
          i \in 0..SensitivitySteps }
    \cup {cfg.default_sensitivity}

ScoreProbe ==
    \E lm \in ScoreFaces, sens \in ScoreSensitivities :
        /\ probe' = [ fn          |-> "analyze_facial_expression",
                      landmarks   |-> lm,
                      sensitivity |-> sens,
                      value       |-> analyze_facial_expression(lm, sens) ]
        /\ UNCHANGED <<cfg, detector, observer, twin, threads, memes>>

NextScore == ScoreProbe

SpecScore == InitDefault /\ [][NextScore]_vars

(* SpecScenario: a fresh detector under the default configuration and up to *)
(* ten face frames whose analysis returns a raw score of 0.1, 0.5 or 0.6    *)
(* and the confidence 0.8.                                                  *)
Scenario == <<100, 100, 100, 100, 500, 600, 600, 600, 600, 600>>

\* the value of analyze_facial_expression, as far as detect_laugh reads it
ScoredFeatures(laugh_score, confidence) ==
    [laugh_score |-> laugh_score, confidence |-> confidence]

DetectScored ==
    \E laugh_score \in {Scenario[i] : i \in 1..Len(Scenario)} :
        /\ Len(laugh_history) < Len(Scenario)
        /\ DetectFeatures(NeutralFace, ScoredFeatures(laugh_score, 800))
        /\ UNCHANGED <<probe, twin, threads, memes>>

NextScenario == DetectScored

SpecScenario == InitDefault /\ [][NextScenario]_vars

(* SpecTrend: the scored face frames of SpecScenario under the default      *)
(* configuration, under the default configuration with a smoothing window   *)
(* of 5, and under a configuration whose history holds 5 entries.           *)
TrendConfigs ==
    { DefaultConfig,
      [DefaultConfig EXCEPT !.smoothing_window = 5],
      [DefaultConfig EXCEPT !.history_size = 5, !.smoothing_window = 5] }

InitTrend ==
    /\ cfg \in TrendConfigs
    /\ LaughDetector_init(<<>>)
    /\ probe = NoProbe
    /\ twin = NoTwin
    /\ threads = NoThreads
    /\ MemeController_init

DetectTrend ==
    \E laugh_score \in {Scenario[i] : i \in 1..Len(Scenario)} :
        /\ Len(laugh_history) < Len(Scenario)
        /\ DetectFeatures(NeutralFace, ScoredFeatures(laugh_score, 800))
        /\ consecutive_laugh_frames' <= Len(Scenario)
        /\ consecutive_non_laugh_frames' <= Len(Scenario)
        /\ UNCHANGED <<probe, twin, threads, memes>>

NextTrend == DetectTrend

SpecTrend == InitTrend /\ [][NextTrend]_vars

(* SpecShort: under the default configuration, face frames whose landmark  *)
(* set is too short for every feature, frames without a face, and          *)
(* reset_state.                                                             *)
ShortFrames == {<<ShortFace>>, NoFaceFrame}

DetectShort ==
    \E frame \in ShortFrames :
        detect_laugh(frame) /\ CounterBound /\ UNCHANGED <<probe, twin, threads, memes>>

NextShort ==
    \/ DetectShort
    \/ Reset

SpecShort == InitDefault /\ [][NextShort]_vars

(* SpecExit: frames with a face that scores above the threshold, with a    *)
(* face that scores below it, and without a face.  The camera loop keeps    *)
(* running: as long as a frame can be processed, one is.                    *)
ExitFaces == {<<ShortFace>>, <<NeutralFace>>}

DetectExitFace ==
    \E frame \in ExitFaces :
        detect_laugh(frame) /\ CounterBound /\ UNCHANGED <<probe, twin, threads, memes>>

DetectExitNoFace ==
    detect_laugh(NoFaceFrame) /\ CounterBound /\ UNCHANGED <<probe, twin, threads, memes>>

NextExit ==
    \/ DetectExitNoFace
    \/ DetectExitFace

SpecExit == Init /\ [][NextExit]_vars /\ WF_vars(NextExit)

(* SpecReset: a detector that is calibrated, fed frames and given           *)
(* sensitivities, and then reset.  With the reset a second detector is      *)
(* constructed with the sensitivity of the first; from then on every frame  *)
(* and every set_sensitivity goes to both.  A calibrate call ends the       *)
(* comparison, the next reset_state begins a new one.                       *)

\* the attributes of LaughDetector(sensitivity = argument, debug = debug_argument)
Fresh(argument, debug_argument) ==
    [ debug                 |-> debug_argument,
      sensitivity           |-> IF argument = <<>> \/ argument = <<0>>
                                THEN cfg.default_sensitivity ELSE argument[1],
      baseline_landmarks    |-> <<>>,
      calibration_timestamp |-> <<>>,
      laugh_history         |-> <<>>,
      confidence_history    |-> <<>>,
      is_laughing           |-> FALSE,
      consecutive_laugh_frames     |-> 0,
      consecutive_non_laugh_frames |-> 0 ]

DetectAfterReset ==
    \E frame \in TwinFrames :
        /\ detect_laugh(frame)
        /\ CounterBound
        /\ twin' = IF twin = NoTwin THEN NoTwin
                   ELSE LET o == DetectOn(twin[1].self, frame)
                        IN  Twin(o.self, <<o.result>>)
        /\ UNCHANGED <<probe, threads, memes>>

SetSensitivityAfterReset ==
    \E value \in SensitivityInputs :
        /\ set_sensitivity(value)
        /\ twin' = IF twin = NoTwin THEN NoTwin
                   ELSE Twin(SetSensitivityOn(twin[1].self, value), twin[1].result)
        /\ UNCHANGED <<probe, threads, memes>>

CalibrateBeforeReset ==
    \E landmarks_list \in CalibrationBatches :
        /\ calibrate(landmarks_list)
        /\ clock' <= MaxClock
        /\ twin' = NoTwin
        /\ UNCHANGED <<probe, threads, memes>>

ResetAndConstruct ==
    /\ reset_state
    /\ twin' = Twin(Fresh(<<sensitivity>>, debug), <<>>)
    /\ UNCHANGED <<probe, threads, memes>>

NextReset ==
    \/ DetectAfterReset
    \/ SetSensitivityAfterReset
    \/ CalibrateBeforeReset
    \/ ResetAndConstruct

SpecReset == Init /\ [][NextReset]_vars

(* SpecConstruct: detectors constructed without a sensitivity argument and  *)
(* with arguments 0, below the range, inside it and above it, and all four  *)
(* operations.                                                              *)
ConstructorArguments == {<<>>, <<0>>, <<300>>, <<1300>>, <<3500>>}

InitConstruct ==
    /\ cfg = CheckConfig
    /\ \E argument \in ConstructorArguments : LaughDetector(argument, FALSE)
    /\ probe = NoProbe
    /\ twin = NoTwin
    /\ threads = NoThreads
    /\ MemeController_init

NextConstruct ==
    \/ DetectShort
    \/ Reset
    \/ SetSensitivity
    \/ Calibrate

SpecConstruct == InitConstruct /\ [][NextConstruct]_vars

(* SpecRace: the camera thread inside detect_laugh on frames with a face   *)
(* and the GUI thread inside reset_state, statement by statement.  Each     *)
(* list operation and each test is one step (the interpreter switches       *)
(* threads between bytecodes, a list method call is not interrupted); the   *)
(* temporal analysis of detect_laugh, which reads the histories and does    *)
(* not write them, is one step, and so are the three assignments that end   *)
(* reset_state.  threads holds where each thread is: camera_call is the     *)
(* statement the camera thread executes next and the features of its frame, *)
(* gui_call the statement the GUI thread executes next.  An IndexError      *)
(* leaves detect_laugh and the camera loop, which does not catch it.        *)
RaceLengthCap == MaxHistory + 2

AtCamera(pc) == threads.camera_call # <<>> /\ threads.camera_call[1].pc = pc

AtGui(pc) == threads.gui_call # <<>> /\ threads.gui_call[1].pc = pc

CameraGoes(pc) ==
    threads' = [threads EXCEPT !.camera_call = <<[threads.camera_call[1] EXCEPT !.pc = pc]>>]

InitRace ==
    /\ cfg = CheckConfig
    /\ LaughDetector_init(<<>>)
    /\ probe = NoProbe
    /\ twin = NoTwin
    /\ threads = [NoThreads EXCEPT !.detection_active = TRUE]
    /\ MemeController_init

\* features = self.analyze_facial_expression(face_landmarks);
\* self.laugh_history.append(raw_laugh_score)
CameraAppendScore ==
    /\ threads.camera_call = <<>>
    /\ Len(laugh_history) < RaceLengthCap /\ Len(confidence_history) < RaceLengthCap
    /\ \E features \in {analyze_facial_expression(ShortFace, sensitivity)} :
          /\ StoreSelf([Self EXCEPT !.laugh_history = Append(@, features.laugh_score)])
          /\ threads' = [threads EXCEPT !.camera_call =
                             <<[pc |-> "append_confidence", features |-> features]>>]
    /\ UNCHANGED <<cfg, clock, observer, probe, twin, memes>>

\* self.confidence_history.append(features['confidence'])
CameraAppendConfidence ==
    /\ AtCamera("append_confidence")
    /\ StoreSelf([Self EXCEPT !.confidence_history =
                                 Append(@, threads.camera_call[1].features.confidence)])
    /\ CameraGoes("test_length")
    /\ UNCHANGED <<cfg, clock, observer, probe, twin, memes>>

\* if len(self.laugh_history) > config.detection.history_size:
CameraTestLength ==
    /\ AtCamera("test_length")
    /\ CameraGoes(IF TooLong(laugh_history) THEN "pop_score" ELSE "decide")
    /\ UNCHANGED <<cfg, detector, observer, probe, twin, memes>>

\* self.laugh_history.pop(0)
CameraPopScore ==
    /\ AtCamera("pop_score")
    /\ IF laugh_history = <<>>
       THEN CameraGoes("IndexError") /\ UNCHANGED detector
       ELSE /\ StoreSelf([Self EXCEPT !.laugh_history = Tail(@)])
            /\ CameraGoes("pop_confidence")
            /\ UNCHANGED clock
    /\ UNCHANGED <<cfg, observer, probe, twin, memes>>

\* self.confidence_history.pop(0)
CameraPopConfidence ==
    /\ AtCamera("pop_confidence")
    /\ IF confidence_history = <<>>
       THEN CameraGoes("IndexError") /\ UNCHANGED detector
       ELSE /\ StoreSelf([Self EXCEPT !.confidence_history = Tail(@)])
            /\ CameraGoes("decide")
            /\ UNCHANGED clock
    /\ UNCHANGED <<cfg, observer, probe, twin, memes>>

\* the temporal analysis, the counters, the decision and the return
CameraDecide ==
    /\ AtCamera("decide")
    /\ \E o \in {DecideOn(Self, ShortFace, threads.camera_call[1].features)} :
          /\ StoreSelf(o.self)
          /\ detection_result' = <<o.result>>
          /\ was_laughing' = is_laughing
          /\ out_run' = NextRun(out_run, o.result.is_laughing)
          /\ above_run' = IF o.above THEN Min(above_run + 1, RunCap) ELSE 0
          /\ below_run' = IF o.qualifying /\ ~o.above THEN Min(below_run + 1, RunCap) ELSE 0
          /\ printed' = o.printed
    /\ CounterBound
    /\ threads' = [threads EXCEPT !.camera_call = <<>>]
    /\ UNCHANGED <<cfg, clock, calibrate_result, probe, twin, memes>>

\* self.laugh_history.clear()
ResetClearScores ==
    /\ threads.gui_call = <<>>
    /\ StoreSelf([Self EXCEPT !.laugh_history = <<>>])
    /\ threads' = [threads EXCEPT !.gui_call =
                       <<[fn |-> "reset_state", pc |-> "clear_confidences"]>>]
    /\ UNCHANGED <<cfg, clock, observer, probe, twin, memes>>

\* self.confidence_history.clear()
ResetClearConfidences ==
    /\ AtGui("clear_confidences")
    /\ StoreSelf([Self EXCEPT !.confidence_history = <<>>])
    /\ threads' = [threads EXCEPT !.gui_call =
                       <<[fn |-> "reset_state", pc |-> "clear_state"]>>]
    /\ UNCHANGED <<cfg, clock, observer, probe, twin, memes>>

\* self.is_laughing = False; the two counters = 0; return
ResetClearState ==
    /\ AtGui("clear_state")
    /\ StoreSelf([Self EXCEPT !.is_laughing = FALSE,
                              !.consecutive_laugh_frames = 0,
                              !.consecutive_non_laugh_frames = 0])
    /\ detection_result' = <<>>
    /\ was_laughing' = is_laughing
    /\ out_run' = NoRun
    /\ above_run' = 0
    /\ below_run' = 0
    /\ printed' = <<>>
    /\ threads' = [threads EXCEPT !.gui_call = <<>>]
    /\ UNCHANGED <<cfg, clock, calibrate_result, probe, twin, memes>>

NextRace ==
    \/ CameraAppendScore
    \/ CameraAppendConfidence
    \/ CameraTestLength
    \/ CameraPopScore
    \/ CameraPopConfidence
    \/ CameraDecide
    \/ ResetClearScores
    \/ ResetClearConfidences
    \/ ResetClearState

SpecRace == InitRace /\ [][NextRace]_vars

(* SpecHistory: all four operations.  probe holds the name of the last      *)
(* call, the detector's attributes when it began, and the number of frames  *)
(* with a face processed since construction or the last reset_state.        *)
FrameCap == MaxHistory + 2

HistoryProbe(fn, frames) == [fn |-> fn, self |-> Self, frames |-> frames]

InitHistory ==
    /\ cfg = CheckConfig
    /\ LaughDetector_init(<<>>)
    /\ probe = HistoryProbe("LaughDetector", 0)
    /\ twin = NoTwin
    /\ threads = NoThreads
    /\ MemeController_init

DetectHistoryFace ==
    /\ probe.frames < FrameCap
    /\ detect_laugh(<<ShortFace>>)
    /\ CounterBound
    /\ probe' = HistoryProbe("detect_laugh", probe.frames + 1)
    /\ UNCHANGED <<twin, threads, memes>>

DetectHistoryNoFace ==
    /\ detect_laugh(NoFaceFrame)
    /\ probe' = HistoryProbe("detect_laugh_no_face", probe.frames)
    /\ UNCHANGED <<twin, threads, memes>>

ResetHistory ==
    reset_state /\ probe' = HistoryProbe("reset_state", 0) /\ UNCHANGED <<twin, threads, memes>>

SetSensitivityHistory ==
    \E value \in SensitivityInputs :
        /\ set_sensitivity(value)
        /\ probe' = HistoryProbe("set_sensitivity", probe.frames)
        /\ UNCHANGED <<twin, threads, memes>>

CalibrateHistory ==
    \E landmarks_list \in CalibrationBatches :
        /\ calibrate(landmarks_list)
        /\ clock' <= MaxClock
        /\ probe' = HistoryProbe("calibrate", probe.frames)
        /\ UNCHANGED <<twin, threads, memes>>

NextHistory ==
    \/ DetectHistoryFace
    \/ DetectHistoryNoFace
    \/ ResetHistory
    \/ SetSensitivityHistory
    \/ CalibrateHistory

SpecHistory == InitHistory /\ [][NextHistory]_vars

(* SpecCalls and SpecCalib: reset_state, set_sensitivity and calibrate      *)
(* between face frames.  probe holds the last of these calls: its name, its *)
(* arguments and the detector's attributes when it began; a frame clears    *)
(* it.  SpecCalls has set_sensitivity with arguments of every kind,         *)
(* SpecCalib has calibrate with batches of every kind.                      *)
Call(fn, arguments) == [fn |-> fn, arguments |-> arguments, self |-> Self]

CallFrames == {<<ShortFace>>}

DetectCall ==
    \E frame \in CallFrames :
        detect_laugh(frame) /\ CounterBound /\ probe' = NoProbe /\ UNCHANGED <<twin, threads, memes>>

ResetCall == reset_state /\ probe' = Call("reset_state", <<>>) /\ UNCHANGED <<twin, threads, memes>>

\* below the range, its ends, inside it, above it
SensitivityCallInputs == {300, 500, 1300, 3000, 3500}

SetSensitivityCall ==
    \E value \in SensitivityCallInputs :
        set_sensitivity(value) /\ probe' = Call("set_sensitivity", <<value>>) /\ UNCHANGED <<twin, threads, memes>>

CalibrationCallBatches == CalibrationBatches \cup {<<Entry(TRUE, TRUE, 50)>>}

CalibrateCall ==
    \E landmarks_list \in CalibrationCallBatches :
        /\ calibrate(landmarks_list)
        /\ clock' <= MaxClock + 1
        /\ probe' = Call("calibrate", <<landmarks_list>>) /\ UNCHANGED <<twin, threads, memes>>

NextCalls ==
    \/ DetectCall
    \/ ResetCall
    \/ SetSensitivityCall

SpecCalls == Init /\ [][NextCalls]_vars

SetSensitivityCalib ==
    \E value \in SensitivityInputs :
        set_sensitivity(value) /\ probe' = Call("set_sensitivity", <<value>>) /\ UNCHANGED <<twin, threads, memes>>

NextCalib ==
    \/ DetectCall
    \/ ResetCall
    \/ SetSensitivityCalib
    \/ CalibrateCall

SpecCalib == Init /\ [][NextCalib]_vars

----------------------------------------------------------------------------
(* Properties *)

\* the landmark sets of the frames of all specifications
FaceLandmarks == {NeutralFace, ShortFace, HalfFace, MalformedFace}

\* this step is detect_laugh on a frame with a face, and the history
\* holds at least 5 entries after the push
QualifyingStep ==
    /\ \E lm \in FaceLandmarks : DetectFace(lm)
    /\ Len(laugh_history') >= 5

\* the DetectionResult of the last detect_laugh call
Result == detection_result[1]

\* the last detect_laugh call was made on a frame with a face
FaceResult == detection_result # <<>> /\ Result.landmarks # <<>>

\* the last detect_laugh call was made on a frame without a face
NoFaceResult == detection_result # <<>> /\ Result.landmarks = <<>>

\* the last detect_laugh call was made on a qualifying frame
QualifyingResult == FaceResult /\ Len(laugh_history) >= 5

\* C1: on every qualifying frame processed while NOT_LAUGHING, the detector
\* is LAUGHING after the frame iff consecutive_laugh_frames, after the
\* frame's counter update, is >= consecutive_frames_required.
C1_EntryRule ==
    (QualifyingResult /\ ~was_laughing)
        => (is_laughing <=> consecutive_laugh_frames >= cfg.consecutive_frames_required)

\* the detector has just entered LAUGHING on the frame that brought the
\* counter to consecutive_frames_required
C1_Witness ==
    /\ QualifyingResult /\ ~was_laughing
    /\ is_laughing
    /\ consecutive_laugh_frames = cfg.consecutive_frames_required

\* C2: on every qualifying frame processed while LAUGHING, the detector is
\* LAUGHING after the frame iff consecutive_non_laugh_frames, after the
\* frame's counter update, is < consecutive_frames_to_stop.
C2_ExitRule ==
    (QualifyingResult /\ was_laughing)
        => (is_laughing <=> consecutive_non_laugh_frames < cfg.consecutive_frames_to_stop)

\* the detector has just left LAUGHING on the frame that brought the counter
\* to consecutive_frames_to_stop
C2_Witness ==
    /\ QualifyingResult /\ was_laughing
    /\ ~is_laughing
    /\ consecutive_non_laugh_frames = cfg.consecutive_frames_to_stop

\* C3: with 3 frames to start and 5 to stop, a detector that is NOT_LAUGHING
\* stays so on the first and second frame of a run of above-threshold
\* qualifying face frames and is LAUGHING after the third; a detector that is
\* LAUGHING stays so on each of the first four frames of a run of
\* below-threshold face frames and is NOT_LAUGHING after the fifth.
C3_AsymmetryScenario ==
    (FaceResult /\ cfg.consecutive_frames_required = 3
                /\ cfg.consecutive_frames_to_stop = 5)
        => /\ (~was_laughing /\ above_run < 3) => ~is_laughing
           /\ (~was_laughing /\ above_run = 3) => is_laughing
           /\ (was_laughing /\ below_run \in 1..4) => is_laughing
           /\ (was_laughing /\ below_run = 5) => ~is_laughing

\* the fifth below-threshold frame in a row has just ended an episode
\* whose output stayed true until then
C3_Witness ==
    /\ cfg.consecutive_frames_required = 3 /\ cfg.consecutive_frames_to_stop = 5
    /\ FaceResult /\ was_laughing /\ ~is_laughing
    /\ below_run = 5
    /\ out_run.val = FALSE /\ out_run.len = 1
    /\ out_run.ended # <<>> /\ out_run.ended[1].len >= 5

\* C4: a detect_laugh call that leaves fewer than 5 entries in the history
\* returns is_laughing = false.
C4_ColdStart ==
    (detection_result # <<>> /\ Len(laugh_history) < 5) => ~Result.is_laughing

\* the fourth face frame since the reset scored above the threshold it would
\* be compared with
C4_Witness ==
    /\ FaceResult
    /\ Len(laugh_history) = 4
    /\ Result.intensity > effective_threshold(Result.confidence, 0)
    /\ ~Result.is_laughing

\* C5: on every qualifying frame, a smoothed score strictly above the
\* effective threshold adds 1 to consecutive_laugh_frames and zeroes
\* consecutive_non_laugh_frames; a smoothed score equal to or below it adds 1
\* to consecutive_non_laugh_frames and zeroes consecutive_laugh_frames.
C5_CounterRule ==
    [][ QualifyingStep
            => LET r == detection_result'[1]
                   threshold == effective_threshold(r.confidence, r.confidence_trend)
               IN  IF r.intensity > threshold
                   THEN /\ consecutive_laugh_frames' = consecutive_laugh_frames + 1
                        /\ consecutive_non_laugh_frames' = 0
                   ELSE /\ consecutive_non_laugh_frames' = consecutive_non_laugh_frames + 1
                        /\ consecutive_laugh_frames' = 0 ]_vars

\* a qualifying frame scored exactly the threshold and was counted as a
\* non-laugh frame, ending a run of laugh frames
C5_Witness ==
    /\ QualifyingResult
    /\ Result.intensity = effective_threshold(Result.confidence, Result.confidence_trend)
    /\ Result.intensity > 0
    /\ consecutive_non_laugh_frames = 1
    /\ consecutive_laugh_frames = 0
    /\ is_laughing

\* C6: detect_laugh on a frame without a face sets both counters to 0 and
\* leaves the is_laughing state reported by get_state_info as it was.
C6_NoFaceFrame ==
    NoFaceResult
        => /\ get_state_info.consecutive_laugh_frames = 0
           /\ get_state_info.consecutive_non_laugh_frames = 0
           /\ get_state_info.current_state
                 = (IF was_laughing THEN "laughing" ELSE "not_laughing")

\* a frame without a face arrived while LAUGHING with a non-zero counter
C6_Witness ==
    /\ NoFaceResult
    /\ was_laughing
    /\ Result.consecutive_non_laugh_frames > 0
    /\ get_state_info.current_state = "laughing"
    /\ get_state_info.consecutive_non_laugh_frames = 0

\* C7: the is_laughing field of the DetectionResult returned by a detect_laugh
\* call equals the detector's is_laughing state after the call.
C7_ResultIsState ==
    detection_result # <<>> => (Result.is_laughing = is_laughing)

\* C8: while NOT_LAUGHING the detector enters LAUGHING only on a frame that
\* ends a run of consecutive_frames_required above-threshold qualifying face
\* frames with no other frame in between.
C8_EntryNeedsRun ==
    (detection_result # <<>> /\ ~was_laughing /\ is_laughing)
        => above_run >= cfg.consecutive_frames_required

\* a frame without a face has just interrupted a run of above-threshold
\* frames one short of the entry, and the count starts again
C8_Witness ==
    /\ NoFaceResult
    /\ Result.consecutive_laugh_frames = cfg.consecutive_frames_required - 1
    /\ ~was_laughing /\ ~is_laughing
    /\ consecutive_laugh_frames = 0

\* C9: in the outputs of consecutive detect_laugh calls, every maximal run of
\* true has length >= consecutive_frames_to_stop and every maximal run of
\* false between two runs of true has length >= consecutive_frames_required.
C9_NoFlicker ==
    (out_run.ended # <<>>)
        => LET run == out_run.ended[1]
           IN  IF run.val
               THEN run.len >= cfg.consecutive_frames_to_stop
               ELSE run.after_true => run.len >= cfg.consecutive_frames_required

\* C10: the score history and the confidence history have equal length,
\* between 0 and history_size.
C10_HistoryInvariant ==
    /\ Len(laugh_history) = Len(confidence_history)
    /\ Len(laugh_history) \in 0..cfg.history_size

\* the history is full and a pair has been evicted, after a calibration and
\* a change of sensitivity
C10_Witness ==
    /\ Len(laugh_history) = cfg.history_size
    /\ above_run + below_run >= cfg.history_size - 3
    /\ calibration_timestamp # <<>>
    /\ sensitivity # cfg.default_sensitivity

\* C11: a face frame pushed onto full histories removes exactly the oldest
\* score and the oldest confidence and appends the frame's own score and
\* confidence: both lists are their former entries 2..H, in order, followed
\* by the new entry, so equal positions of the two lists hold the same frame.
\* (SpecFifo)
C11_FifoEviction ==
    [][ ( /\ \E lm \in FaceLandmarks : DetectFace(lm)
          /\ Len(laugh_history) = cfg.history_size
          /\ Len(confidence_history) = cfg.history_size )
        => LET frame_features ==
                   analyze_facial_expression(detection_result'[1].landmarks[1], sensitivity)
           IN  /\ laugh_history' =
                      Tail(laugh_history) \o <<frame_features.laugh_score>>
               /\ confidence_history' =
                      Tail(confidence_history) \o <<frame_features.confidence>> ]_vars

\* full histories after an eviction, the oldest pair and the newest pair
\* coming from different faces
C11_Witness ==
    /\ FaceResult
    /\ Len(laugh_history) = cfg.history_size
    /\ above_run + below_run > cfg.history_size - 4
    /\ laugh_history[1] # laugh_history[cfg.history_size]
    /\ confidence_history[1] # confidence_history[cfg.history_size]

\* C12: the effective threshold is at least min_threshold for every averaged
\* confidence in [0, 1] and every trend, positive, zero or negative; with
\* min_threshold > 0 it is never zero or negative.  (SpecThreshold)
C12_ThresholdFloor ==
    probe.fn = "effective_threshold"
    => /\ probe.value >= cfg.min_threshold
       /\ cfg.min_threshold > 0 => probe.value > 0

\* full confidence and a rising trend whose bonus alone exceeds the base
\* threshold: the floor is what is returned
C12_Witness ==
    /\ probe.fn = "effective_threshold"
    /\ probe.avg_confidence = One
    /\ probe.trend * 2 > cfg.base_threshold
    /\ cfg.min_threshold > 0
    /\ probe.value = cfg.min_threshold

\* C13: under the default configuration (sensitivity 1.3, base threshold 0.4,
\* minimum 0.25, 3 frames to start, 5 to stop, history 20, window 10) a fresh
\* detector fed face frames with the raw scores 0.1, 0.1, 0.1, 0.1, 0.5, 0.6,
\* 0.6, 0.6, 0.6, 0.6 and confidence 0.8 returns is_laughing = false on
\* frames 1 to 6, true on the 7th frame and on every frame up to the 10th.
\* (SpecScenario)
C13_EndToEnd ==
    LET frame == Len(laugh_history)
    IN  ( /\ frame >= 1
          /\ laugh_history = SubSeq(Scenario, 1, frame)
          /\ \A i \in 1..frame : confidence_history[i] = 800
          /\ sensitivity = 1300 )
        => /\ Result.is_laughing = (frame >= 7)
           /\ is_laughing = (frame >= 7)

C13_Witness ==
    /\ laugh_history = Scenario
    /\ \A i \in 1..Len(Scenario) : confidence_history[i] = 800
    /\ FaceResult
    /\ Result.is_laughing
    /\ cfg = DefaultConfig

\* C14: reset_state leaves both histories empty, both counters 0 and
\* is_laughing false, and leaves the sensitivity, the baseline and the
\* calibration timestamp as they were; a face frame that finds fewer than 5
\* entries after its push, as the 4 frames following a reset do, returns
\* is_laughing = false.  (SpecCalib)
C14_Reset ==
    /\ probe.fn = "reset_state"
       => /\ laugh_history = <<>>
          /\ confidence_history = <<>>
          /\ consecutive_laugh_frames = 0
          /\ consecutive_non_laugh_frames = 0
          /\ ~is_laughing
          /\ sensitivity = probe.self.sensitivity
          /\ baseline_landmarks = probe.self.baseline_landmarks
          /\ calibration_timestamp = probe.self.calibration_timestamp
    /\ (FaceResult /\ Len(laugh_history) <= 4) => ~Result.is_laughing

\* a reset of a calibrated, laughing detector with full histories and a
\* sensitivity other than the default
C14_Witness ==
    /\ probe.fn = "reset_state"
    /\ probe.self.is_laughing
    /\ Len(probe.self.laugh_history) = cfg.history_size
    /\ probe.self.consecutive_laugh_frames > 0
    /\ probe.self.calibration_timestamp # <<>>
    /\ probe.self.sensitivity # cfg.default_sensitivity
    /\ laugh_history = <<>>

\* C15: set_sensitivity(v) stores min_sensitivity when v is below it,
\* max_sensitivity when v is above it, and v itself when v is in the range;
\* the call is possible for every v.  (SpecCalls)
C15_SensitivityClamp ==
    probe.fn = "set_sensitivity"
    => LET value == probe.arguments[1]
       IN  /\ value < cfg.min_sensitivity => sensitivity = cfg.min_sensitivity
           /\ value > cfg.max_sensitivity => sensitivity = cfg.max_sensitivity
           /\ (cfg.min_sensitivity <= value /\ value <= cfg.max_sensitivity)
              => sensitivity = value

\* a value above the range, given to a detector with frames in its history
C15_Witness ==
    /\ probe.fn = "set_sensitivity"
    /\ probe.arguments[1] > cfg.max_sensitivity
    /\ sensitivity = cfg.max_sensitivity
    /\ probe.self.sensitivity = cfg.min_sensitivity
    /\ laugh_history # <<>>

\* C16: set_sensitivity changes the sensitivity only: the histories, both
\* counters and is_laughing are what they were when the call began, so no
\* stored score is computed again; the score of a face frame analysed after
\* the call is computed with the sensitivity the call stored.  (SpecCalls)
C16_NotRetroactive ==
    /\ probe.fn = "set_sensitivity"
       => /\ laugh_history = probe.self.laugh_history
          /\ confidence_history = probe.self.confidence_history
          /\ consecutive_laugh_frames = probe.self.consecutive_laugh_frames
          /\ consecutive_non_laugh_frames = probe.self.consecutive_non_laugh_frames
          /\ is_laughing = probe.self.is_laughing
    /\ (probe = NoProbe /\ FaceResult)
       => /\ Result.features[1] =
                analyze_facial_expression(Result.landmarks[1], sensitivity)
          /\ laugh_history[Len(laugh_history)] = Result.features[1].laugh_score

\* the sensitivity was changed while the detector was laughing, and the
\* history holds scores of the same face under the old sensitivity
C16_Witness ==
    /\ probe.fn = "set_sensitivity"
    /\ sensitivity # probe.self.sensitivity
    /\ is_laughing
    /\ consecutive_laugh_frames > 0
    /\ Len(laugh_history) = cfg.history_size
    /\ \E i \in 1..Len(laugh_history) :
           laugh_history[i] =
               analyze_facial_expression(ShortFace, probe.self.sensitivity).laugh_score
    /\ \A i \in 1..Len(laugh_history) :
           laugh_history[i] #
               analyze_facial_expression(ShortFace, sensitivity).laugh_score

\* the entries of a batch that are truthy and convert to an array
ValidEntries(batch) ==
    SelectSeq(batch, LAMBDA entry : entry.truthy /\ entry.readable)

\* C17: calibrate returns false when the batch is empty or no entry of it
\* yields a valid landmark array, and then the baseline and the calibration
\* timestamp are what they were before the call.  (SpecCalib)
C17_CalibrationFailure ==
    (probe.fn = "calibrate" /\ ValidEntries(probe.arguments[1]) = <<>>)
    => /\ calibrate_result = <<FALSE>>
       /\ baseline_landmarks = probe.self.baseline_landmarks
       /\ calibration_timestamp = probe.self.calibration_timestamp

\* a batch of falsy and unreadable entries given to a calibrated detector
C17_Witness ==
    /\ probe.fn = "calibrate"
    /\ probe.arguments[1] # <<>>
    /\ ValidEntries(probe.arguments[1]) = <<>>
    /\ calibrate_result = <<FALSE>>
    /\ baseline_landmarks # <<>>
    /\ calibration_timestamp # <<>>

\* C18: calibrate returns true exactly when the batch holds at least one
\* valid landmark set; it then replaces the baseline by the mean of the valid
\* entries only and sets a new calibration timestamp, and get_state_info
\* reports is_calibrated = true from then on, also after reset_state.
\* (SpecCalib)
C18_CalibrationSuccess ==
    /\ probe.fn = "calibrate"
       => LET valid == ValidEntries(probe.arguments[1])
          IN  /\ calibrate_result = <<valid # <<>>>>
              /\ valid # <<>>
                 => /\ baseline_landmarks =
                          <<Mean([i \in 1..Len(valid) |-> valid[i].point])>>
                    /\ calibration_timestamp # <<>>
                    /\ calibration_timestamp # probe.self.calibration_timestamp
    /\ clock > 0 => get_state_info.is_calibrated

\* a second calibration, from a batch with invalid entries among the valid
\* ones, replaces a different baseline
C18_Witness ==
    /\ probe.fn = "calibrate"
    /\ calibrate_result = <<TRUE>>
    /\ Len(ValidEntries(probe.arguments[1])) < Len(probe.arguments[1])
    /\ Len(ValidEntries(probe.arguments[1])) > 1
    /\ probe.self.baseline_landmarks # <<>>
    /\ baseline_landmarks # probe.self.baseline_landmarks
    /\ get_state_info.is_calibrated

\* the probed analysis computed a score (the landmark set converted) from
\* the features m, e, c
Scored(m, e, c) ==
    /\ probe.fn = "analyze_facial_expression"
    /\ probe.landmarks.readable
    /\ probe.value.mouth_openness = m
    /\ probe.value.eye_crinkle = e
    /\ probe.value.cheek_movement = c

\* C20 as stated: features that are all 0 are scored laugh_score = 0 and
\* confidence = 1, for every sensitivity of the range.  (SpecScore)
C20_ZeroFeatures ==
    Scored(0, 0, 0) => (probe.value.laugh_score = 0 /\ probe.value.confidence = One)

\* C20, amended: features that are all 0 are scored
\* laugh_score = min(eye_weight * sensitivity, 1) and
\* confidence = 1 - stddev(0, 1, 0), which is 0.53, for every sensitivity of
\* the range; laugh_score = 0 and confidence = 1 are the score of
\* mouth_openness = 0, eye_crinkle = 1, cheek_movement = 0.  (SpecScore)
C20_ZeroFeaturesAmended ==
    /\ Scored(0, 0, 0)
       => /\ probe.value.laugh_score =
                 Min((cfg.eye_weight * probe.sensitivity) \div One, One)
          /\ probe.value.confidence \in 528..529
    /\ Scored(0, One, 0)
       => (probe.value.laugh_score = 0 /\ probe.value.confidence = One)

\* a face with closed mouth, closed eyes and level cheeks under the default
\* sensitivity
C20_Witness ==
    /\ Scored(0, 0, 0)
    /\ probe.landmarks.n = 478
    /\ probe.sensitivity = cfg.default_sensitivity
    /\ probe.value.laugh_score = 390

\* C19: of two detectors given the same frames and the same reset_state and
\* set_sensitivity calls, one of which is also given calibrate calls at any
\* points, each returns the DetectionResult the other returns, for every
\* frame, and calibrate changes neither the histories, the counters,
\* is_laughing nor the sensitivity: the two agree on all of them after every
\* call.  (SpecTwin)
C19_BaselineUnread ==
    /\ detection_result = twin[1].result
    /\ laugh_history = twin[1].self.laugh_history
    /\ confidence_history = twin[1].self.confidence_history
    /\ consecutive_laugh_frames = twin[1].self.consecutive_laugh_frames
    /\ consecutive_non_laugh_frames = twin[1].self.consecutive_non_laugh_frames
    /\ is_laughing = twin[1].self.is_laughing
    /\ sensitivity = twin[1].self.sensitivity

\* this detector is calibrated, the other is not, and both return
\* is_laughing = true on a frame that finds full histories
C19_Witness ==
    /\ baseline_landmarks # <<>>
    /\ calibration_timestamp # <<>>
    /\ twin[1].self.baseline_landmarks = <<>>
    /\ twin[1].self.calibration_timestamp = <<>>
    /\ calibrate_result = <<TRUE>>
    /\ FaceResult
    /\ Result.is_laughing
    /\ twin[1].result[1].is_laughing
    /\ Len(laugh_history) = cfg.history_size

\* C21: for every feature vector, a negative cheek_movement included, and
\* every sensitivity the laugh_score and the confidence that
\* analyze_facial_expression returns are both within [0, 1].  (SpecScore)
C21_ScoreRange ==
    probe.fn = "analyze_facial_expression"
    => /\ 0 <= probe.value.laugh_score /\ probe.value.laugh_score <= One
       /\ 0 <= probe.value.confidence /\ probe.value.confidence <= One

\* C22: a face frame whose feature computation fails is answered with a
\* DetectionResult: its features are all 0 with laugh_score = 0 and
\* confidence = 0, that pair is the newest entry of the histories, and the
\* frame passes the cold start, the counters and the hysteresis as every
\* face frame does.  (SpecFail)
C22_FailureContained ==
    (FaceResult /\ ~Result.landmarks[1].readable)
    => /\ Result.features[1].mouth_openness = 0
       /\ Result.features[1].eye_crinkle = 0
       /\ Result.features[1].cheek_movement = 0
       /\ Result.features[1].laugh_score = 0
       /\ Result.features[1].confidence = 0
       /\ laugh_history[Len(laugh_history)] = 0
       /\ confidence_history[Len(confidence_history)] = 0
       /\ Len(laugh_history) < 5 => ~Result.is_laughing
       /\ Len(laugh_history) >= 5
          => /\ above_run + below_run > 0
             /\ above_run > 0
                => (consecutive_laugh_frames > 0 /\ consecutive_non_laugh_frames = 0)
             /\ below_run > 0
                => (consecutive_laugh_frames = 0 /\ consecutive_non_laugh_frames > 0)
             /\ ~was_laughing
                => (Result.is_laughing
                    <=> consecutive_laugh_frames >= cfg.consecutive_frames_required)
             /\ was_laughing
                => (Result.is_laughing
                    <=> consecutive_non_laugh_frames < cfg.consecutive_frames_to_stop)
       /\ is_laughing = Result.is_laughing

\* a failing frame that ends a laugh: the fifth frame at or below the
\* threshold in a row
C22_Witness ==
    /\ FaceResult
    /\ ~Result.landmarks[1].readable
    /\ was_laughing
    /\ ~Result.is_laughing
    /\ Len(laugh_history) = cfg.history_size
    /\ consecutive_non_laugh_frames = cfg.consecutive_frames_to_stop

\* C23: in the application no call of reset_state, set_sensitivity or
\* calibrate from the GUI side is in progress while the camera thread is
\* inside detect_laugh on the same detector.  (SpecApp)
C23_CallsSerialised ==
    ~(threads.camera_call # <<>> /\ threads.gui_call # <<>>)

\* the attributes that the decisions read and write
Decisions(self) == [self EXCEPT !.debug = FALSE]

\* C24: a detector with debug enabled and one with debug disabled that are
\* given the same calls return the same DetectionResults and hold the same
\* histories, counters, is_laughing (and all other attributes but debug)
\* after every call
C24_DebugDoesNotDecide ==
    /\ debug /\ ~twin[1].self.debug
    /\ twin[1].result = detection_result
    /\ Decisions(twin[1].self) = Decisions(Self)

\* both detectors have entered the laughing state, and this one has printed
\* the start of the laugh
C24_Witness ==
    /\ debug /\ ~twin[1].self.debug
    /\ printed = <<"laugh_started">>
    /\ is_laughing /\ twin[1].self.is_laughing
    /\ Result.is_laughing
    /\ twin[1].result = detection_result

Printed(message) == \E i \in 1..Len(printed) : printed[i] = message

\* the last call was detect_laugh or reset_state (with debug enabled
\* set_sensitivity prints, and so does calibrate for an entry that does not
\* convert)
LastCallTracked == ~Printed("sensitivity_updated") /\ ~Printed("calibration_error")

\* C28: with debug enabled, a call prints the start of a laugh exactly when
\* it changes self.is_laughing from false to true, and the end of a laugh
\* exactly when it changes self.is_laughing from true to false
C28_TransitionsNotified ==
    (debug /\ LastCallTracked) =>
        /\ Printed("laugh_started") <=> (~was_laughing /\ is_laughing)
        /\ Printed("laugh_ended") <=> (was_laughing /\ ~is_laughing)

\* C25: on a qualifying frame the reported intensity and confidence are the
\* means of the last smoothing_window scores and confidences when the history
\* holds at least smoothing_window entries, and the frame's own raw score and
\* confidence when it holds fewer; the threshold is computed from the reported
\* confidence and the reported intensity is what is compared with it
C25_SmoothingFallback ==
    QualifyingResult =>
        /\ Len(laugh_history) >= cfg.smoothing_window
             => /\ Result.intensity = Mean(LastN(laugh_history, cfg.smoothing_window))
                /\ Result.confidence = Mean(LastN(confidence_history, cfg.smoothing_window))
        /\ Len(laugh_history) < cfg.smoothing_window
             => /\ Result.intensity = laugh_history[Len(laugh_history)]
                /\ Result.confidence = confidence_history[Len(confidence_history)]
        /\ Result.consecutive_laugh_frames > 0
             <=> Result.intensity
                   > effective_threshold(Result.confidence, Result.confidence_trend)

\* the tenth frame of the scenario: the mean of the ten scores is reported,
\* not the frame's own score; the output has been true since the seventh
\* frame, so the fifth, sixth and seventh frame were above the threshold by
\* their own scores (the mean of the first five scores is below it)
C25_Witness ==
    /\ QualifyingResult
    /\ laugh_history = Scenario
    /\ Len(laugh_history) = cfg.smoothing_window
    /\ Result.intensity = Mean(laugh_history)
    /\ Result.intensity # laugh_history[Len(laugh_history)]
    /\ Mean(SubSeq(laugh_history, 1, 5)) <= cfg.min_threshold
    /\ out_run.val /\ out_run.len = 4

\* C26: on a qualifying frame the trend is the mean of the last 5 scores
\* minus the mean of the 5 scores before them when the history holds at least
\* 10 entries, and 0 when it holds fewer, whatever smoothing_window is; with
\* history_size < 10 the trend is 0 on every frame
C26_Trend ==
    /\ QualifyingResult =>
          LET n == Len(laugh_history)
          IN  /\ n >= 10 => Result.confidence_trend
                               = Mean(SubSeq(laugh_history, n - 4, n))
                                   - Mean(SubSeq(laugh_history, n - 9, n - 5))
              /\ n < 10 => Result.confidence_trend = 0
    /\ (detection_result # <<>> /\ cfg.history_size < 10) => Result.confidence_trend = 0

\* the tenth frame of the scenario under a smoothing window of 5: the trend
\* is the difference of the two means, 0.6 - 0.18
C26_Witness ==
    /\ QualifyingResult
    /\ cfg.smoothing_window = 5 /\ cfg.history_size >= 10
    /\ laugh_history = Scenario
    /\ Result.confidence_trend > 0
    /\ Result.confidence_trend
         = Mean(LastN(laugh_history, 5)) - Mean(SubSeq(laugh_history, 1, 5))

\* C27: the effective threshold is
\* max(base_threshold - 0.2 * avg_confidence - max(2 * trend, 0), min_threshold);
\* a negative trend gives the threshold of the trend 0; for avg_confidence >= 0
\* the threshold is at most max(base_threshold, min_threshold); a larger
\* avg_confidence or a larger trend never gives a larger threshold.
\* (SpecThreshold)
C27_ThresholdShape ==
    probe.fn = "effective_threshold" =>
        /\ probe.value
             = Max(cfg.base_threshold - (200 * probe.avg_confidence) \div One
                       - Max(2 * probe.trend, 0),
                   cfg.min_threshold)
        /\ probe.trend < 0 => probe.value = effective_threshold(probe.avg_confidence, 0)
        /\ probe.avg_confidence >= 0
             => probe.value <= Max(cfg.base_threshold, cfg.min_threshold)
        /\ \A avg_confidence \in ConfidenceLevels, trend \in TrendLevels :
               (avg_confidence >= probe.avg_confidence /\ trend >= probe.trend)
                   => effective_threshold(avg_confidence, trend) <= probe.value

\* a falling trend and some confidence: the threshold is the base threshold
\* less the confidence bonus, above the floor and below the base threshold
C27_Witness ==
    /\ probe.fn = "effective_threshold"
    /\ probe.trend < 0
    /\ probe.avg_confidence > 0
    /\ probe.value = cfg.base_threshold - (200 * probe.avg_confidence) \div One
    /\ probe.value > cfg.min_threshold
    /\ probe.value < cfg.base_threshold

\* C29: under the default configuration and the default sensitivity, face
\* frames whose landmark sets are too short for every feature never bring the
\* detector into the laughing state.  (SpecShort: every face frame is such a
\* frame)
C29_ShortFramesNeverLaugh ==
    (cfg = DefaultConfig /\ sensitivity = cfg.default_sensitivity) => ~is_laughing

\* frames with a face keep arriving
FacesKeepArriving == []<><<DetectExitFace>>_vars

\* C30: when frames with a face keep arriving, the detector does not stay
\* in the laughing state for ever while no frame with a face scores above
\* the threshold any more, whatever frames without a face come between:
\* again and again the detector is not laughing or a frame above the
\* threshold has just been processed
C30_EventualExit ==
    FacesKeepArriving => []<>(~is_laughing \/ above_run > 0)

\* C30 amended: when frames with a face keep arriving, the detector does
\* not stay in the laughing state for ever while every frame has a face and
\* none scores above the threshold: again and again the detector is not
\* laughing, or a frame above the threshold or a frame without a face has
\* just been processed
C30_EventualExitAmended ==
    FacesKeepArriving => []<>(~is_laughing \/ above_run > 0 \/ NoFaceResult)

\* the fifth frame in a row with a face that scores at or below the
\* threshold has ended the laugh
C30_Witness ==
    /\ QualifyingResult
    /\ was_laughing /\ ~is_laughing
    /\ above_run = 0
    /\ Result.consecutive_non_laugh_frames = cfg.consecutive_frames_to_stop
    /\ ~Result.is_laughing

\* C31: in every reachable state (with consecutive_frames_required >= 1 and
\* consecutive_frames_to_stop >= 1), while is_laughing is true
\* consecutive_non_laugh_frames is below consecutive_frames_to_stop, and
\* while it is false consecutive_laugh_frames is below
\* consecutive_frames_required
C31_StateMatchesCounters ==
    (cfg.consecutive_frames_required >= 1 /\ cfg.consecutive_frames_to_stop >= 1)
        => /\ is_laughing => consecutive_non_laugh_frames < cfg.consecutive_frames_to_stop
           /\ ~is_laughing => consecutive_laugh_frames < cfg.consecutive_frames_required

\* a laugh one frame before its end
C31_Witness ==
    /\ cfg.consecutive_frames_required >= 1 /\ cfg.consecutive_frames_to_stop >= 1
    /\ QualifyingResult
    /\ is_laughing
    /\ consecutive_non_laugh_frames = cfg.consecutive_frames_to_stop - 1

\* C32: in every reachable state at most one of consecutive_laugh_frames and
\* consecutive_non_laugh_frames is not 0, and neither is negative
C32_CountersExclusive ==
    /\ consecutive_laugh_frames >= 0
    /\ consecutive_non_laugh_frames >= 0
    /\ consecutive_laugh_frames = 0 \/ consecutive_non_laugh_frames = 0

\* the first frame at or below the threshold after a run of frames above it
C32_Witness ==
    /\ QualifyingResult
    /\ is_laughing /\ was_laughing
    /\ below_run = 1
    /\ consecutive_non_laugh_frames = 1
    /\ consecutive_laugh_frames = 0

\* C33: the counters in the DetectionResult of every detect_laugh call, a
\* call on a frame without a face included, are the counters that
\* get_state_info reports after the call (the calls that may follow it
\* before the next frame or reset, set_sensitivity and calibrate, do not
\* touch the counters)
C33_ResultCountersCurrent ==
    detection_result # <<>> =>
        /\ Result.consecutive_laugh_frames = get_state_info.consecutive_laugh_frames
        /\ Result.consecutive_non_laugh_frames
             = get_state_info.consecutive_non_laugh_frames

\* C34: a detect_laugh call on a frame without a face, set_sensitivity and
\* calibrate leave both histories as they were, and after every call the
\* length of either history is the smaller of history_size and the number of
\* frames with a face processed since construction or the last reset_state
C34_HistoryWriters ==
    /\ probe.fn \in {"detect_laugh_no_face", "set_sensitivity", "calibrate"}
         => /\ laugh_history = probe.self.laugh_history
            /\ confidence_history = probe.self.confidence_history
    /\ Len(laugh_history) = Min(probe.frames, cfg.history_size)
    /\ Len(confidence_history) = Min(probe.frames, cfg.history_size)

\* a frame without a face after more frames with a face than the history
\* holds
C34_Witness ==
    /\ probe.fn = "detect_laugh_no_face"
    /\ probe.frames > cfg.history_size
    /\ Len(laugh_history) = cfg.history_size
    /\ laugh_history = probe.self.laugh_history

\* C35: after reset_state in any reachable state the detector returns, for
\* every sequence of frames and set_sensitivity calls that follows, the
\* DetectionResults of a detector constructed with the same sensitivity and
\* given the same sequence (and holds the same histories, counters and
\* is_laughing); reset_state twice in a row leaves the detector as
\* reset_state once
C35_ResetIsFresh ==
    /\ twin # NoTwin
         => /\ twin[1].result = detection_result
            /\ twin[1].self.sensitivity = sensitivity
            /\ twin[1].self.laugh_history = laugh_history
            /\ twin[1].self.confidence_history = confidence_history
            /\ twin[1].self.is_laughing = is_laughing
            /\ twin[1].self.consecutive_laugh_frames = consecutive_laugh_frames
            /\ twin[1].self.consecutive_non_laugh_frames = consecutive_non_laugh_frames
    /\ ResetOn(ResetOn(Self)) = ResetOn(Self)

\* a calibrated detector that was reset and a fresh one have both entered
\* the laughing state on the same frame
C35_Witness ==
    /\ twin # NoTwin
    /\ baseline_landmarks # <<>> /\ twin[1].self.baseline_landmarks = <<>>
    /\ QualifyingResult /\ Result.is_laughing /\ ~was_laughing
    /\ twin[1].result = detection_result
    /\ twin[1].self.is_laughing /\ is_laughing

\* C36: in every state reachable from construction with any sensitivity
\* argument by set_sensitivity, detect_laugh, reset_state and calibrate calls
\* the sensitivity lies within [min_sensitivity, max_sensitivity]
C36_SensitivityInRange ==
    sensitivity >= cfg.min_sensitivity /\ sensitivity <= cfg.max_sensitivity

\* neither thread is inside a call of the detector (a call that raised has
\* ended)
CallsFinished ==
    /\ threads.camera_call = <<>> \/ AtCamera("IndexError")
    /\ threads.gui_call = <<>>

\* C37: when reset_state runs in the GUI thread while the camera thread
\* executes detect_laugh on the same detector, whatever the interleaving of
\* their statements, the score history and the confidence history have the
\* same length, at most history_size, once both calls have finished
C37_HistoryInvariantSurvives ==
    CallsFinished
        => /\ Len(laugh_history) = Len(confidence_history)
           /\ Len(laugh_history) <= cfg.history_size

\* ---------------------------------------------------------------------------
\* MemeController (src/gui/meme_controller.py): the queue of memes, the meme
\* on display and the auto-advance timer.  The controller schedules through
\* two callbacks, schedule_callback and cancel_scheduled; they are wired to
\* the event loop's after() and after_cancel(), so that a scheduled job stays
\* pending until it fires or is cancelled, and every job has an id of its own.
\* An operator takes and returns m = [self, after]: the controller's
\* attributes and the event loop's jobs.  The rows the controller writes to
\* the database are not part of the state.
\* ---------------------------------------------------------------------------
MaxMemes == 3
MaxJobs == 4
IndexCap == MaxMemes + 2

\* what scraper.get_random_memes can return: no meme, or a batch of 1..MaxMemes memes
NewMemes == {<<>>} \cup {[i \in 1..n |-> 10 * n + i] : n \in 1..MaxMemes}

Memes == [self |-> meme_controller, after |-> after_jobs]

\* schedule_callback(delay, self.next_meme), its result kept in auto_advance_job
ScheduleAutoAdvance(m) ==
    LET job == m.after.created + 1
    IN  [ self  |-> [m.self EXCEPT !.auto_advance_job = <<job>>],
          after |-> [pending |-> m.after.pending \cup {job}, created |-> job] ]

_cancel_auto_advance(m) ==
    IF m.self.auto_advance_job # <<>>
    THEN [ self  |-> [m.self EXCEPT !.auto_advance_job = <<>>],
           after |-> [m.after EXCEPT !.pending = @ \ {m.self.auto_advance_job[1]}] ]
    ELSE m

NextMemeOn(m) ==
    IF m.self.memes_queue = <<>>
    THEN m
    ELSE LET c     == _cancel_auto_advance(m)
             index == c.self.current_meme_index + 1
         IN  IF index >= Len(c.self.memes_queue)
             THEN [c EXCEPT !.self.current_meme_index = index,
                            !.self.current_meme = <<>>]
             ELSE LET shown == [c EXCEPT !.self.current_meme_index = index,
                                         !.self.current_meme = <<c.self.memes_queue[index + 1]>>,
                                         !.self.view_start_time = <<"now">>,
                                         !.self.laugh_events = <<>>]
                  IN  IF shown.self.auto_advance_active
                      THEN ScheduleAutoAdvance(shown)
                      ELSE shown

PrevMemeOn(m) ==
    IF m.self.memes_queue = <<>> \/ m.self.current_meme_index <= 0
    THEN m
    ELSE LET c == _cancel_auto_advance(m)
         IN  NextMemeOn([c EXCEPT !.self.current_meme_index = @ - 2])

LoadNewMemesOn(m, new_memes) ==
    IF new_memes # <<>>
    THEN NextMemeOn([m EXCEPT !.self.memes_queue = new_memes,
                              !.self.current_meme_index = -1])
    ELSE m

SetAutoAdvanceOn(m, enabled) ==
    LET a == [m EXCEPT !.self.auto_advance_active = enabled]
    IN  IF ~enabled
        THEN _cancel_auto_advance(a)
        ELSE IF a.self.current_meme # <<>> THEN ScheduleAutoAdvance(a) ELSE a

ClearCurrentSessionOn(m) ==
    LET c == _cancel_auto_advance(m)
    IN  [c EXCEPT !.self.memes_queue = <<>>,
                  !.self.current_meme_index = -1,
                  !.self.current_meme = <<>>,
                  !.self.view_start_time = <<>>,
                  !.self.laugh_events = <<>>]

StoreMemes(m) ==
    /\ m.self.current_meme_index <= IndexCap
    /\ m.after.created <= MaxJobs
    /\ meme_controller' = m.self
    /\ after_jobs' = m.after
    /\ UNCHANGED <<cfg, detector, observer, probe, twin, threads>>

load_new_memes == \E new_memes \in NewMemes : StoreMemes(LoadNewMemesOn(Memes, new_memes))

next_meme == StoreMemes(NextMemeOn(Memes))

prev_meme == StoreMemes(PrevMemeOn(Memes))

set_auto_advance == \E enabled \in BOOLEAN : StoreMemes(SetAutoAdvanceOn(Memes, enabled))

clear_current_session == StoreMemes(ClearCurrentSessionOn(Memes))

\* the event loop runs a pending job: the job is gone, and its callback, next_meme, runs
AutoAdvanceFires ==
    \E job \in after_jobs.pending :
        StoreMemes(NextMemeOn([Memes EXCEPT !.after.pending = @ \ {job}]))

NextMemes ==
    \/ load_new_memes
    \/ next_meme
    \/ prev_meme
    \/ set_auto_advance
    \/ clear_current_session
    \/ AutoAdvanceFires

SpecMemes == Init /\ [][NextMemes]_vars

\* C38: after any sequence of load_new_memes, next_meme, prev_meme and
\* clear_current_session calls, -1 <= current_meme_index <= len(memes_queue),
\* and current_meme is None or the queue entry at current_meme_index.
C38_IndexInQueue ==
    LET self == meme_controller
    IN  /\ -1 <= self.current_meme_index
        /\ self.current_meme_index <= Len(self.memes_queue)
        /\ \/ self.current_meme = <<>>
           \/ /\ self.current_meme_index \in 0..(Len(self.memes_queue) - 1)
              /\ self.current_meme[1] = self.memes_queue[self.current_meme_index + 1]

\* C39: at most one scheduled auto-advance job is outstanding, it is the one
\* recorded in auto_advance_job, and once auto-advance is switched off none is
\* outstanding.
C39_OneJobPending ==
    /\ Cardinality(after_jobs.pending) <= 1
    /\ \A job \in after_jobs.pending : meme_controller.auto_advance_job = <<job>>
    /\ ~meme_controller.auto_advance_active => after_jobs.pending = {}

====
